---- MODULE Spec2Model ----
(***************************************************************************)
(* State-machine model of the WebGPU image renderers of this repository:   *)
(*   - the React component WebGPURenderer (src/app/components/             *)
(*     WebGPUImage.tsx), in its two variants: "plain" (lines 67-370) and   *)
(*     "gated" (visibility-gated, lines 459-813);                          *)
(*   - the <webgpu-image> custom element (src/webgpu-image.js).            *)
(*                                                                         *)
(* Every action is one macrotask of the browser's event loop: an event     *)
(* handler or a promise settlement together with the continuation of the   *)
(* async function that awaited it, the React re-render it triggers and the *)
(* effect cleanups and bodies that re-render flushes.                      *)
(***************************************************************************)
EXTENDS Integers, Sequences, FiniteSets, TLC

(***************************************************************************)
(* Bounds of the model.                                                    *)
(***************************************************************************)
\* number of src assignments (runs of the [src] effect) of one component
MaxInits == 2
\* largest value of performance.now() (in clock ticks)
MaxClock == 1

(***************************************************************************)
(* Inputs.                                                                 *)
(***************************************************************************)
\* the source locators a host assigns
Sources == {"A", "B"}

\* naturalWidth x naturalHeight of the image each locator decodes to
ImgSize(s) == IF s = "A" THEN <<200, 100>> ELSE <<50, 50>>

\* the two WebGPURenderer definitions of WebGPUImage.tsx
Variants == {"plain", "gated"}

\* pointer positions relative to the canvas' left/top edge, and the
\* width/height of its bounding rectangle
PointerOffsets == {3}
RectExtents == {2}

(***************************************************************************)
(* JavaScript numbers as far as handleMouseMove needs them: a rational     *)
(* num/den with den >= 0 (den = 0: +Infinity or -Infinity by the sign of   *)
(* num), or NaN.                                                           *)
(***************************************************************************)
RECURSIVE Gcd(_, _)
Gcd(a, b) == IF b = 0 THEN a ELSE Gcd(b, a % b)

Abs(a) == IF a < 0 THEN -a ELSE a

Num(n, d) == [nan |-> FALSE, num |-> n, den |-> d]

NaN == [nan |-> TRUE, num |-> 0, den |-> 0]

\* a / b for integers a, b
JsDiv(a, b) ==
  IF b = 0
  THEN IF a = 0 THEN NaN ELSE Num(IF a > 0 THEN 1 ELSE -1, 0)
  ELSE LET g == Gcd(Abs(a), Abs(b))
           s == IF b < 0 THEN -1 ELSE 1
       IN Num((s * a) \div g, (s * b) \div g)

\* Math.max(v, k) and Math.min(v, k) for an integer k: NaN is contagious
JsMax(v, k) == IF v.nan THEN NaN ELSE IF v.num < k * v.den THEN Num(k, 1) ELSE v

JsMin(v, k) == IF v.nan THEN NaN ELSE IF v.num > k * v.den THEN Num(k, 1) ELSE v

saturate(value) == JsMin(JsMax(value, 0), 1)

(***************************************************************************)
(* State of one WebGPURenderer instance.                                   *)
(***************************************************************************)
VARIABLES
  variant,            \* which WebGPURenderer definition is mounted ("" before)
  gpuSupported,       \* navigator.gpu is present
  mounted,            \* "idle" (not yet mounted), "mounted", "unmounted"
  src,                \* the src prop ("" before the first mount)
  inits,              \* the runs of the [src] effect, oldest first
  gpuContext,         \* useState gpuContext; init = 0 is null
  isVisible,          \* useState isVisible (gated variant)
  isHovered,          \* useState isHovered
  mousePos,           \* useState mousePos
  dimensions,         \* useState dimensions; <<0, 0>> is null
  error,              \* useState error (gated variant); "" is null
  isLoading,          \* useState isLoading of the wrapper WebGPUImage
  canvasSize,         \* canvas.current.width/height; <<0, 0>> when unset
  surface,            \* the canvas context's configuration; device = 0: none
  startTimeRef,       \* startTimeRef.current
  animationFrameRef,  \* animationFrameRef.current; 0 is undefined
  renderCleanup,      \* the render effect's last run returned a cleanup
  rafPending,         \* the requestAnimationFrame callbacks not yet run
  now,                \* performance.now()
  lastSubmit,         \* the frame the last step handed to device.queue.submit, if any
  lastInitAt,         \* history: the clock when an initialization last completed
  pausedAt            \* history: the clock when visibility was last lost; -1 never

(***************************************************************************)
(* State of one <webgpu-image> element (src/webgpu-image.js).              *)
(***************************************************************************)
VARIABLES
  elSrc,              \* the src attribute; Absent when the element has none
  elConnected,        \* the element is in a document
  elCalls,            \* the invocations of initWebGPU, oldest first
  elImg,              \* this.img: the source it was decoded from; "" undefined
  elTextureSize,      \* this.textureWidth, this.textureHeight
  elCanvasSize,       \* this.canvas.width, this.canvas.height
  elContext,          \* this.context: "undefined", "null" or "context"
  elDevice,           \* this.device: the call that assigned it; 0 undefined
  elSurface,          \* the device the canvas context is configured with
  elUniformBuffer,    \* this.uniformBuffer: the call that created it
  elBindGroup,        \* this.bindGroup; call = 0 is undefined
  elPipeline,         \* this.pipeline: the call that created it
  elStartTime,        \* this.startTime
  elLoops,            \* the pending requestAnimationFrame(() => this.render())
  elFrame             \* what the render() call of the last step did, if any

(***************************************************************************)
(* State of one page driven by a standalone script: src/main.js in its two *)
(* revisions ("static", lines 1-264: one tinted frame per resize;          *)
(* "animated", lines 266-491: a frame loop) and the cube page              *)
(* (src/unnamed/part_001, "cube").                                         *)
(***************************************************************************)
VARIABLES
  pgScript,           \* the script the page runs ("" before it is loaded)
  pgPc,               \* where main() is: "idle", "load", "adapter", "device",
                      \* "running" (main returned), "failed" (main rejected)
  pgError,            \* what main() rejected with; "" none
  pgContext,          \* canvas.getContext("webgpu"): "context" or "null"
  pgImg,              \* what the image URL decoded to; "" before
  pgCanvasSize,       \* canvas.width, canvas.height
  pgDeviceRequested,  \* adapter.requestDevice() was called
  pgSurface,          \* the configuration of the canvas context; device = 0: none
  pgUniformBuffer,    \* the uniform buffer: its size in bytes; 0 before
  pgBindGroup,        \* the bind group: the layout it was created from; 0 before
  pgPipeline,         \* the pipeline: its layout and format; layout = 0 before
  pgStartTime,        \* startTime of the animated script
  pgRotation,         \* the number of cube.rotate calls so far
  pgRaf,              \* the pending requestAnimationFrame callbacks
  pgListening,        \* the resize listener is installed
  pgFrame             \* what the last step wrote and submitted, if anything

\* The SVG page (src/unnamed/part_000)
VARIABLES
  svgPc,              \* "idle"; "loaded": the script has looked up the
                      \* container; "canvas": createCanvas has returned;
                      \* "running": animate() has run; "failed": the
                      \* script threw
  container,          \* document.getElementById('ref'): "present", "missing"
  containerRect,      \* container.getBoundingClientRect(): width, height
  containerChildren,  \* the svg elements appended to the container
  svgChildren,        \* the children of svgElement, in document order
  elementStates,      \* SVGParser.elementStates: id -> state
  svgTime,            \* the frames animate() has drawn (time / 0.05)
  svgLast             \* what the last step called and what came of it

svgVars == <<svgPc, container, containerRect, containerChildren, svgChildren,
             elementStates, svgTime, svgLast>>

\* The two-pass (mask + main) configuration
VARIABLES
  twoPass             \* pc: "idle" or "running"; frames: the frames rendered;
                      \* mask: the frame whose mask the mask texture holds
                      \* (0: none); frame: the frame the last step submitted

reactVars == <<variant, mounted, src, inits, gpuContext, isVisible,
               isHovered, mousePos, dimensions, error, isLoading, canvasSize,
               surface, startTimeRef, animationFrameRef, renderCleanup,
               rafPending, lastSubmit, lastInitAt, pausedAt>>

ceVars == <<elSrc, elConnected, elCalls, elImg, elTextureSize, elCanvasSize,
            elContext, elDevice, elSurface, elUniformBuffer, elBindGroup,
            elPipeline, elStartTime, elLoops, elFrame>>

pgVars == <<pgScript, pgPc, pgError, pgContext, pgImg, pgCanvasSize,
            pgDeviceRequested, pgSurface, pgUniformBuffer, pgBindGroup,
            pgPipeline, pgStartTime, pgRotation, pgRaf, pgListening, pgFrame>>

vars == <<gpuSupported, now, reactVars, ceVars, pgVars, twoPass, svgVars>>

NoContext == [init |-> 0, device |-> 0, img |-> "", texSize |-> <<0, 0>>]

\* a uniform buffer that was not created
NoBuffer == [call |-> 0, size |-> 0]

\* a pipeline that was not created
NoPipeline == [call |-> 0, layout |-> 0, format |-> ""]

NoSubmit == [n |-> FALSE]

NoSurface == [device |-> 0, format |-> ""]

\* getAttribute("src") of an element without the attribute
Absent == "absent"

NoBindGroup == [call |-> 0, img |-> "", texSize |-> <<0, 0>>, layout |-> 0,
                buffer |-> 0]

NoFrame == [kind |-> "none"]

Init ==
  /\ variant = ""
  /\ gpuSupported \in BOOLEAN
  /\ mounted = "idle"
  /\ src = ""
  /\ inits = <<>>
  /\ gpuContext = NoContext
  /\ isVisible = FALSE
  /\ isHovered = FALSE
  /\ mousePos = <<Num(0, 1), Num(0, 1)>>
  /\ dimensions = <<0, 0>>
  /\ error = ""
  /\ isLoading = TRUE
  /\ canvasSize = <<0, 0>>
  /\ surface = NoSurface
  /\ startTimeRef = 0
  /\ animationFrameRef = 0
  /\ renderCleanup = FALSE
  /\ rafPending = {}
  /\ now = 0
  /\ lastSubmit = NoSubmit
  /\ lastInitAt = 0
  /\ pausedAt = -1
  /\ elSrc = Absent
  /\ elConnected = FALSE
  /\ elCalls = <<>>
  /\ elImg = ""
  /\ elTextureSize = <<0, 0>>
  /\ elCanvasSize = <<0, 0>>
  /\ elContext = "undefined"
  /\ elDevice = 0
  /\ elSurface = NoSurface
  /\ elUniformBuffer = NoBuffer
  /\ elBindGroup = NoBindGroup
  /\ elPipeline = NoPipeline
  /\ elStartTime = 0
  /\ elLoops = 0
  /\ elFrame = NoFrame
  /\ pgScript = ""
  /\ pgPc = "idle"
  /\ pgError = ""
  /\ pgContext = "null"
  /\ pgImg = ""
  /\ pgCanvasSize = <<0, 0>>
  /\ pgDeviceRequested = FALSE
  /\ pgSurface = NoSurface
  /\ pgUniformBuffer = NoBuffer
  /\ pgBindGroup = [layout |-> 0, buffer |-> NoBuffer]
  /\ pgPipeline = NoPipeline
  /\ pgStartTime = 0
  /\ pgRotation = 0
  /\ pgRaf = 0
  /\ pgListening = FALSE
  /\ pgFrame = NoFrame
  /\ twoPass = [pc |-> "idle", frames |-> 0, mask |-> 0, frame |-> NoFrame]
  /\ svgPc = "idle"
  /\ container = "missing"
  /\ containerRect = <<Num(0, 1), Num(0, 1)>>
  /\ containerChildren = <<>>
  /\ svgChildren = <<>>
  /\ elementStates = <<>>
  /\ svgTime = 0
  /\ svgLast = [op |-> "none"]


(***************************************************************************)
(* Helpers shared by the handlers of WebGPURenderer.                       *)
(***************************************************************************)
\* the divisor that turns performance.now() milliseconds into seconds
TimeDivisor == 1000

\* Float32Array.BYTES_PER_ELEMENT
BytesPerFloat == 4

\* navigator.gpu.getPreferredCanvasFormat(): one value for the life of a page
getPreferredCanvasFormat == "bgra8unorm"

\* Mutation of configure: the context is configured only if it is not yet
configure_OnlyOnce(surf, device, format) ==
  IF surf.device # 0 THEN surf ELSE [device |-> device, format |-> format]

\* context.configure({ device, format, alphaMode }) on a canvas context
\* whose configuration is surf: a canvas context holds one configuration,
\* and configure replaces it
configure(surf, device, format) == [device |-> device, format |-> format]

\* the size the uniform buffer of WebGPURenderer is created with
UniformBufferSize == 64

\* the size the uniform buffer of <webgpu-image> is created with
elUniformBufferSize == 48

\* struct Uniforms of SHADER_CODE, in declared order
Uniforms ==
  << [name |-> "tintColor", type |-> "vec4f"],
     [name |-> "mousePos", type |-> "vec2f"],
     [name |-> "resolution", type |-> "vec2f"],
     [name |-> "isHovered", type |-> "f32"],
     [name |-> "time", type |-> "f32"] >>

\* struct Uniforms of the element's shaderCode, in declared order
elUniforms ==
  << [name |-> "tintColor", type |-> "vec4f"],
     [name |-> "time", type |-> "f32"],
     [name |-> "padding", type |-> "vec3f"] >>

\* size and alignment of the member types, in 4-byte floats
FloatsOf(type) ==
  IF type = "vec4f" THEN 4 ELSE IF type = "vec3f" THEN 3
  ELSE IF type = "vec2f" THEN 2 ELSE 1

AlignOf(type) ==
  IF type \in {"vec4f", "vec3f"} THEN 4 ELSE IF type = "vec2f" THEN 2 ELSE 1

RoundUp(n, a) == ((n + a - 1) \div a) * a

\* the offset of member i of struct, in floats: the end of the member
\* before it, rounded up to the alignment of member i
RECURSIVE FieldOffset(_, _)
FieldOffset(struct, i) ==
  IF i = 1 THEN 0
  ELSE RoundUp(FieldOffset(struct, i - 1) + FloatsOf(struct[i - 1].type),
               AlignOf(struct[i].type))

\* the size of struct, in floats: its end rounded up to its alignment
StructFloats(struct) ==
  RoundUp(FieldOffset(struct, Len(struct)) + FloatsOf(struct[Len(struct)].type),
          4)

\* the floats of data that the shader reads as member name of struct
Field(data, struct, name) ==
  LET i == CHOOSE j \in DOMAIN struct : struct[j].name = name
  IN SubSeq(data, FieldOffset(struct, i) + 1,
            FieldOffset(struct, i) + FloatsOf(struct[i].type))

\* the positions of data that no member of struct covers
PaddingOf(data, struct) ==
  {n \in DOMAIN data :
     \A j \in DOMAIN struct :
       n <= FieldOffset(struct, j)
         \/ n > FieldOffset(struct, j) + FloatsOf(struct[j].type)}

\* the image-rendering variants: the React component, the custom element,
\* the two revisions of main.js
ImageVariants == {"react", "element", "static", "animated"}

\* The @group(0) bindings each variant's WGSL declares, by slot: the kind of
\* resource and the shader stages whose entry point reads it (directly or
\* through the functions it calls).  Every variant samples and reads the
\* uniform in fragmentMain only; vertexMain takes its input from
\* vertex_index or from vertex attributes.
ShaderBindings(v) ==
  << [kind |-> "sampler", readBy |-> {"FRAGMENT"}],
     [kind |-> "texture", readBy |-> {"FRAGMENT"}],
     [kind |-> "buffer", readBy |-> {"FRAGMENT"}] >>

\* Mutation of BindGroupLayoutEntries: the uniform buffer is visible to the
\* vertex stage only
BindGroupLayoutEntries_VertexOnly(v) ==
  << [kind |-> "sampler", visibility |-> {"FRAGMENT"}],
     [kind |-> "texture", visibility |-> {"FRAGMENT"}],
     [kind |-> "buffer", visibility |-> {"VERTEX"}] >>

\* The entries of createBindGroupLayout, by slot (binding 0 is slot 1 of the
\* sequence): the kind of resource and the visibility.  The React component
\* declares the uniform buffer visible to both stages.
BindGroupLayoutEntries(v) ==
  << [kind |-> "sampler", visibility |-> {"FRAGMENT"}],
     [kind |-> "texture", visibility |-> {"FRAGMENT"}],
     [kind |-> "buffer",
      visibility |-> IF v = "react" THEN {"VERTEX", "FRAGMENT"}
                     ELSE {"FRAGMENT"}] >>

\* The entries of createBindGroup, by slot: the kind of resource bound (the
\* sampler, texture.createView(), { buffer: uniformBuffer })
BindGroupEntries(v) == << "sampler", "texture", "buffer" >>

\* Mutation of createBindGroup: the element's bind group binds the buffer
\* that this.uniformBuffer held before the call created its own
createBindGroup_PreviousBuffer(id, buf) ==
  [bindGroupLayout |-> id,
   bindGroup |-> [layout |-> id, buffer |-> elUniformBuffer]]

\* createBindGroup: a new bind group layout (id names the object) and the
\* bind group instantiated against it, over uniform buffer buf
createBindGroup(id, buf) ==
  [bindGroupLayout |-> id, bindGroup |-> [layout |-> id, buffer |-> buf]]

\* Mutation of VertexBuffers: no pipeline declares a vertex buffer layout
VertexBuffers_None(v) == << >>

\* vertex.buffers of the pipeline descriptor of each image-rendering variant:
\* main.js declares one buffer of interleaved position and texture
\* coordinate; the React component and the element declare none (vertexMain
\* synthesizes the quad from vertex_index)
VertexBuffers(v) ==
  IF v \in {"static", "animated"}
  THEN << [ arrayStride |-> 16,
            attributes |->
              << [shaderLocation |-> 0, offset |-> 0, format |-> "float32x2"],
                 [shaderLocation |-> 1, offset |-> 8, format |-> "float32x2"]
              >> ] >>
  ELSE << >>

\* primitive.topology of the pipeline descriptor of each variant
Topology(v) == "triangle-strip"

\* the arguments of passEncoder.draw in each variant's render
Draw(v) ==
  [vertexCount |-> 4, instanceCount |-> 1, firstVertex |-> 0,
   firstInstance |-> 0]

\* Mutation of createRenderPipeline: the pipeline layout is derived from the
\* shader (layout: "auto") and not from the layout handed in
createRenderPipeline_AutoLayout(id, bindGroupLayout, canvasFormat) ==
  [call |-> id, layout |-> -1, format |-> canvasFormat]

\* Mutation of createRenderPipeline: a literal target format
createRenderPipeline_LiteralFormat(id, bindGroupLayout, canvasFormat) ==
  [call |-> id, layout |-> bindGroupLayout, format |-> "rgba8unorm"]

\* createRenderPipeline: a pipeline layout over bindGroupLayout and a
\* pipeline with one colour target of canvasFormat
createRenderPipeline(id, bindGroupLayout, canvasFormat) ==
  [call |-> id, layout |-> bindGroupLayout, format |-> canvasFormat]

\* canvas.current is non-null: the component is mounted and renders the
\* canvas (not the error box that replaces it once error is set)
CanvasPresent == mounted = "mounted" /\ error = ""

\* the state setters of an unmounted component do nothing
Live == mounted = "mounted"

\* cancelAnimationFrame(id)
cancelAnimationFrame(pend, id) == {c \in pend : c.id # id}

\* The handle requestAnimationFrame returns.  Handles are opaque and live
\* only in rafPending and animationFrameRef; the browser never returns one
\* that is still pending, which is all the code can observe, so the model
\* returns the smallest handle that is not pending.
requestId(pend) ==
  CHOOSE n \in 1..(Cardinality(pend) + 1) :
    /\ \A c \in pend : c.id # n
    /\ \A m \in 1..(n - 1) : \E c \in pend : c.id = m

\* Float32Array entry for an integer
F(k) == Num(k, 1)

\* Mutation of elapsed: the start timestamp is not subtracted
elapsed_SinceOrigin(start) == JsDiv(now, TimeDivisor)

\* (performance.now() - startTimeRef.current) / 1000
elapsed(start) == JsDiv(now - start, TimeDivisor)

\* Mutation of uniformData: time is written before isHovered
uniformData_TimeFirst(closure, start) ==
  << F(1), F(1), F(1), F(1),
     closure.mousePos[1], closure.mousePos[2],
     F(IF CanvasPresent THEN canvasSize[1] ELSE 0),
     F(IF CanvasPresent THEN canvasSize[2] ELSE 0),
     elapsed(start),
     F(IF closure.isHovered THEN 1 ELSE 0),
     F(0), F(0), F(0) >>

\* the Float32Array render() hands to writeBuffer at offset 0
uniformData(closure, start) ==
  << F(1), F(1), F(1), F(1),
     closure.mousePos[1], closure.mousePos[2],
     F(IF CanvasPresent THEN canvasSize[1] ELSE 0),
     F(IF CanvasPresent THEN canvasSize[2] ELSE 0),
     F(IF closure.isHovered THEN 1 ELSE 0),
     elapsed(start),
     F(0), F(0), F(0) >>

\* Mutation of renderCommands: the next frame is requested first
renderCommands_RequestFirst ==
  << "requestAnimationFrame", "time", "writeBuffer", "beginRenderPass",
     "setPipeline", "setBindGroup", "draw", "end", "submit" >>

\* The statements of one render() of the render effect, in program order:
\* the elapsed time, the uniform write, the pass with its one draw, the
\* submission, the request for the next frame
renderCommands ==
  << "time", "writeBuffer", "beginRenderPass", "setPipeline", "setBindGroup",
     "draw", "end", "submit", "requestAnimationFrame" >>

\* One call of render(), the closure of the render effect: the uniform
\* write, the submission and the request for the next frame.  closure holds
\* what the effect run captured; start is startTimeRef.current; vis, epoch
\* and cause ("init", "resume", "input": the effect run after setGpuContext,
\* after visibility was regained, after a pointer event; "raf": an animation
\* frame callback) are recorded for the history only.
render(closure, pend, start, vis, epoch, cause) ==
  LET id == requestId(pend)
  IN [ pending |-> pend \cup {[id |-> id, ctx |-> closure.ctx,
                               mousePos |-> closure.mousePos,
                               isHovered |-> closure.isHovered]},
       ref |-> id,
       frame |-> [ n |-> TRUE,
                   init |-> closure.ctx.init,
                   device |-> closure.ctx.device,
                   img |-> closure.ctx.img,
                   uniformBuffer |-> closure.ctx.uniformBuffer,
                   bindGroup |-> closure.ctx.bindGroup,
                   pipeline |-> closure.ctx.pipeline,
                   commands |-> renderCommands,
                   writeOffset |-> 0,
                   writeBytes |-> BytesPerFloat *
                                    Len(uniformData(closure, start)),
                   mousePos |-> closure.mousePos,
                   isHovered |-> closure.isHovered,
                   resolution |-> IF CanvasPresent THEN canvasSize
                                  ELSE <<0, 0>>,
                   uniform |-> uniformData(closure, start),
                   visible |-> vis,
                   cause |-> cause,
                   cur |-> Len(inits),
                   at |-> now,
                   epoch |-> epoch,
                   pausedAt |-> pausedAt ] ]

\* Mutation of RenderEffectCleanup: the effect returns no cleanup
RenderEffectCleanup_Missing(pend, ref) == pend

\* The cleanup the render effect returns when its body called render():
\* cancelAnimationFrame(animationFrameRef.current) if that is set
RenderEffectCleanup(pend, ref) ==
  IF renderCleanup /\ ref # 0 THEN cancelAnimationFrame(pend, ref) ELSE pend

\* Mutation of RenderEffectSkips: the gated variant does not look at isVisible
RenderEffectSkips_Ungated(ctx, vis) == ctx.init = 0

\* The early return of the render effect's body: !gpuContext, and in the
\* gated variant also !isVisible
RenderEffectSkips(ctx, vis) == ctx.init = 0 \/ (variant = "gated" /\ ~vis)

\* The render effect (deps gpuContext, mousePos, isHovered and, gated,
\* isVisible) re-run after a change of its deps: the cleanup of its last
\* run, then its body with the new values.
RenderEffect(ctx, mp, hov, vis, start, epoch, cause) ==
  LET p1 == RenderEffectCleanup(rafPending, animationFrameRef)
  IN IF RenderEffectSkips(ctx, vis)
     THEN [pending |-> p1, ref |-> animationFrameRef, cleanup |-> FALSE,
           frame |-> NoSubmit]
     ELSE LET r == render([ctx |-> ctx, mousePos |-> mp, isHovered |-> hov],
                          p1, start, vis, epoch, cause)
          IN [pending |-> r.pending, ref |-> r.ref, cleanup |-> TRUE,
              frame |-> r.frame]

\* The visibility effect (deps isVisible), gated variant only
VisibilityEffect(vis, pend, ref) ==
  IF ~vis /\ ref # 0
  THEN [pending |-> cancelAnimationFrame(pend, ref), ref |-> 0]
  ELSE [pending |-> pend, ref |-> ref]

\* The record of one run of the [src] effect.  pc is where initWebGPU is:
\* "load" (await loadImage), "adapter" (await requestAdapter), "device"
\* (await requestDevice), "ready" (setGpuContext called), "stale" (returned
\* at the isActive check), "failed" (in the catch), "skipped" (returned at
\* the canvas/src check).  cancelledAt, deviceRequested, deviceDestroyed
\* (device.destroy() was called on its device: no code path does),
\* configured and installed are history.
NewInit(s, pc0, v) ==
  [ src |-> s, pc |-> pc0, isActive |-> TRUE,
    observing |-> (v = "gated" /\ pc0 = "load"),
    cancelledAt |-> "", deviceRequested |-> FALSE,
    deviceDestroyed |-> FALSE,
    configured |-> FALSE, installed |-> FALSE ]

\* The cleanup of the [src] effect on the record of its run
InitCleanup(r) ==
  [r EXCEPT !.isActive = FALSE, !.observing = FALSE, !.cancelledAt = r.pc]

\* The frame-loop part of the [src] effect's cleanup:
\* if (animationFrameRef.current) cancelAnimationFrame(...)
InitCleanupCancel(pend, ref) ==
  IF ref # 0 THEN cancelAnimationFrame(pend, ref) ELSE pend

\* Mutation of GpuContext: setGpuContext is called before the pipeline is
\* created
GpuContext_NoPipeline(g) ==
  LET uniformBuffer == [init |-> g, size |-> UniformBufferSize]
      bg == createBindGroup(g, uniformBuffer)
  IN [ init |-> g, device |-> g, img |-> inits[g].src,
       texSize |-> ImgSize(inits[g].src),
       uniformBuffer |-> uniformBuffer,
       bindGroup |-> bg.bindGroup,
       pipeline |-> NoPipeline ]

\* The GPU objects one successful initialization creates
GpuContext(g) ==
  LET uniformBuffer == [init |-> g, size |-> UniformBufferSize]
      bg == createBindGroup(g, uniformBuffer)
  IN [ init |-> g, device |-> g, img |-> inits[g].src,
       texSize |-> ImgSize(inits[g].src),
       uniformBuffer |-> uniformBuffer,
       bindGroup |-> bg.bindGroup,
       pipeline |-> createRenderPipeline(g, bg.bindGroupLayout,
                                         getPreferredCanvasFormat) ]


(***************************************************************************)
(* The [src] effect: mount, src change, unmount.                           *)
(***************************************************************************)
\* The body of the [src] effect for src s: initWebGPU up to its first await
StartInit(s, v) ==
  IF CanvasPresent' THEN NewInit(s, "load", v) ELSE NewInit(s, "skipped", v)

\* The host renders <WebGPUImage src=s>, of variant v, for the first time
Mount(s, v) ==
  /\ mounted = "idle"
  /\ mounted' = "mounted"
  /\ variant' = v
  /\ src' = s
  /\ error' = error
  /\ inits' = <<StartInit(s, v)>>
  /\ lastSubmit' = NoSubmit
  /\ UNCHANGED <<twoPass, svgVars, ceVars, pgVars, gpuSupported, gpuContext, isVisible, isHovered,
                 mousePos, dimensions, isLoading, canvasSize, surface,
                 startTimeRef, animationFrameRef, renderCleanup, rafPending,
                 now, lastInitAt, pausedAt>>

\* The host re-renders with another src: the cleanup of the previous run of
\* the [src] effect, then its body for s.  No other effect has a changed dep.
SetSrc(s) ==
  /\ mounted = "mounted"
  /\ s # src
  /\ Len(inits) < MaxInits
  /\ src' = s
  /\ mounted' = mounted
  /\ error' = error
  /\ inits' = Append([inits EXCEPT ![Len(inits)] = InitCleanup(@)],
                     StartInit(s, variant))
  /\ rafPending' = InitCleanupCancel(rafPending, animationFrameRef)
  /\ lastSubmit' = NoSubmit
  /\ UNCHANGED <<twoPass, svgVars, ceVars, pgVars, variant, gpuSupported, gpuContext, isVisible, isHovered,
                 mousePos, dimensions, isLoading, canvasSize, surface,
                 startTimeRef, animationFrameRef, renderCleanup, now,
                 lastInitAt, pausedAt>>

\* The component is removed: the cleanups of the [src] effect and of the
\* render effect run, canvas.current becomes null
Unmount ==
  /\ mounted = "mounted"
  /\ mounted' = "unmounted"
  /\ inits' = [inits EXCEPT ![Len(inits)] = InitCleanup(@)]
  /\ rafPending' = RenderEffectCleanup(
                     InitCleanupCancel(rafPending, animationFrameRef),
                     animationFrameRef)
  /\ renderCleanup' = FALSE
  /\ lastSubmit' = NoSubmit
  /\ UNCHANGED <<twoPass, svgVars, ceVars, pgVars, variant, gpuSupported, src, gpuContext, isVisible, isHovered,
                 mousePos, dimensions, error, isLoading, canvasSize, surface,
                 startTimeRef, animationFrameRef, now, lastInitAt,
                 pausedAt>>

(***************************************************************************)
(* initWebGPU: the continuations after its awaits.                         *)
(***************************************************************************)
\* The catch block of initWebGPU for run g: setError in the gated variant,
\* console.error only in the plain one
Fail(g, kind) ==
  /\ inits' = [inits EXCEPT ![g].pc = "failed"]
  /\ error' = IF variant = "gated" /\ Live THEN kind ELSE error

\* Mutation of ReturnsAfterLoad: isActive is not checked after the await
ReturnsAfterLoad_Unchecked(r) == FALSE

\* if (!isActive) return; after await loadImage
ReturnsAfterLoad(r) == ~r.isActive

\* img.onload of run g, then initWebGPU resumed after await loadImage
LoadResolved(g) ==
  /\ g \in 1..Len(inits)
  /\ inits[g].pc = "load"
  /\ LET size == ImgSize(inits[g].src)
         active == ~ReturnsAfterLoad(inits[g])
     IN /\ dimensions' = IF Live THEN size ELSE dimensions
        /\ isLoading' = IF Live THEN FALSE ELSE isLoading
        /\ canvasSize' =
             IF CanvasPresent /\ (active \/ dimensions # size)
             THEN size ELSE canvasSize
        /\ IF ~active
           THEN inits' = [inits EXCEPT ![g].pc = "stale"] /\ error' = error
           ELSE IF ~CanvasPresent THEN Fail(g, "TypeError")
           ELSE IF ~gpuSupported THEN Fail(g, "unsupported")
           ELSE inits' = [inits EXCEPT ![g].pc = "adapter"] /\ error' = error
  /\ lastSubmit' = NoSubmit
  /\ UNCHANGED <<twoPass, svgVars, ceVars, pgVars, variant, gpuSupported, mounted, src, gpuContext, isVisible,
                 isHovered, mousePos, surface, startTimeRef,
                 animationFrameRef, renderCleanup, rafPending, now,
                 lastInitAt, pausedAt>>

\* img.onerror of run g: loadImage rejects
LoadRejected(g) ==
  /\ g \in 1..Len(inits)
  /\ inits[g].pc = "load"
  /\ Fail(g, "image")
  /\ lastSubmit' = NoSubmit
  /\ UNCHANGED <<twoPass, svgVars, ceVars, pgVars, variant, gpuSupported, mounted, src, gpuContext, isVisible,
                 isHovered, mousePos, dimensions, isLoading, canvasSize,
                 surface, startTimeRef, animationFrameRef, renderCleanup,
                 rafPending, now, lastInitAt, pausedAt>>

\* navigator.gpu.requestAdapter() of run g resolves, with an adapter or null
AdapterResolved(g, found) ==
  /\ g \in 1..Len(inits)
  /\ inits[g].pc = "adapter"
  /\ IF found
     THEN /\ inits' = [inits EXCEPT ![g].pc = "device",
                                    ![g].deviceRequested = TRUE]
          /\ error' = error
     ELSE Fail(g, "adapter")
  /\ lastSubmit' = NoSubmit
  /\ UNCHANGED <<twoPass, svgVars, ceVars, pgVars, variant, gpuSupported, mounted, src, gpuContext, isVisible,
                 isHovered, mousePos, dimensions, isLoading, canvasSize,
                 surface, startTimeRef, animationFrameRef, renderCleanup,
                 rafPending, now, lastInitAt, pausedAt>>

\* adapter.requestDevice() of run g resolves and initWebGPU runs to its end:
\* getContext, configure, the resources, startTimeRef, setGpuContext and the
\* render effect that the new gpuContext re-runs.  hasContext: getContext
\* returns a context, as it does on a canvas whose context is configured.
DeviceResolved(g, hasContext) ==
  /\ g \in 1..Len(inits)
  /\ inits[g].pc = "device"
  /\ surface.device # 0 => hasContext
  /\ IF ~CanvasPresent \/ ~hasContext
     THEN /\ Fail(g, IF ~CanvasPresent THEN "TypeError" ELSE "context")
          /\ lastSubmit' = NoSubmit
          /\ UNCHANGED <<gpuContext, surface, startTimeRef, animationFrameRef,
                         renderCleanup, rafPending, lastInitAt>>
     ELSE LET ctx == GpuContext(g)
              e == RenderEffect(ctx, mousePos, isHovered, isVisible, now, now,
                                "init")
          IN /\ inits' = [inits EXCEPT ![g].pc = "ready",
                                       ![g].configured = TRUE,
                                       ![g].installed = TRUE]
             /\ error' = error
             /\ surface' = configure(surface, ctx.device,
                                     getPreferredCanvasFormat)
             /\ startTimeRef' = now
             /\ lastInitAt' = now
             /\ gpuContext' = ctx
             /\ rafPending' = e.pending
             /\ animationFrameRef' = e.ref
             /\ renderCleanup' = e.cleanup
             /\ lastSubmit' = e.frame
  /\ UNCHANGED <<twoPass, svgVars, ceVars, pgVars, variant, gpuSupported, mounted, src, isVisible, isHovered,
                 mousePos, dimensions, isLoading, canvasSize, now, pausedAt>>

(***************************************************************************)
(* Events of the host and of the browser.                                  *)
(***************************************************************************)
\* The IntersectionObserver of the current run reports isIntersecting = v.
\* A canvas that is not in the document does not intersect.
VisibilityChange(v) ==
  /\ variant = "gated"
  /\ Live
  /\ \E g \in 1..Len(inits) : inits[g].observing
  /\ v => CanvasPresent
  /\ v # isVisible
  /\ isVisible' = v
  /\ pausedAt' = IF v THEN pausedAt ELSE now
  /\ LET e == RenderEffect(gpuContext, mousePos, isHovered, v, startTimeRef,
                           lastInitAt, "resume")
         w == VisibilityEffect(v, e.pending, e.ref)
     IN /\ rafPending' = w.pending
        /\ animationFrameRef' = w.ref
        /\ renderCleanup' = e.cleanup
        /\ lastSubmit' = e.frame
  /\ UNCHANGED <<twoPass, svgVars, ceVars, pgVars, variant, gpuSupported, mounted, src, inits, gpuContext,
                 isHovered, mousePos, dimensions, error, isLoading,
                 canvasSize, surface, startTimeRef, now, lastInitAt>>

\* A re-render after mousePos or isHovered changed: the render effect re-runs
Rerender(mp, hov) ==
  LET e == RenderEffect(gpuContext, mp, hov, isVisible, startTimeRef,
                        lastInitAt, "input")
  IN /\ mousePos' = mp
     /\ isHovered' = hov
     /\ rafPending' = e.pending
     /\ animationFrameRef' = e.ref
     /\ renderCleanup' = e.cleanup
     /\ lastSubmit' = e.frame
     /\ UNCHANGED <<twoPass, svgVars, ceVars, pgVars, variant, gpuSupported, mounted, src, inits, gpuContext,
                    isVisible, dimensions, error, isLoading, canvasSize,
                    surface, startTimeRef, now, lastInitAt, pausedAt>>

\* onMouseMove: the pointer is dx, dy from the left/top edge of a bounding
\* rectangle of width w and height h
handleMouseMove(dx, dy, w, h) ==
  /\ CanvasPresent
  /\ Rerender(<<saturate(JsDiv(dx, w)), saturate(JsDiv(dy, h))>>, isHovered)

\* onMouseEnter / onMouseLeave: setIsHovered(hov); React bails out of a
\* state update to the same value
handleHover(hov) ==
  /\ CanvasPresent
  /\ hov # isHovered
  /\ Rerender(mousePos, hov)

\* The browser runs the pending animation frame callback c: render() of the
\* effect run that requested it
AnimationFrame(c) ==
  /\ c \in rafPending
  /\ LET r == render(c, rafPending \ {c}, startTimeRef, isVisible, lastInitAt,
                    "raf")
     IN /\ rafPending' = r.pending
        /\ animationFrameRef' = r.ref
        /\ lastSubmit' = r.frame
  /\ UNCHANGED <<twoPass, svgVars, ceVars, pgVars, variant, gpuSupported, mounted, src, inits, gpuContext,
                 isVisible, isHovered, mousePos, dimensions, error, isLoading,
                 canvasSize, surface, startTimeRef, renderCleanup, now,
                 lastInitAt, pausedAt>>

\* performance.now() advances
Tick ==
  /\ now < MaxClock
  /\ now' = now + 1
  /\ lastSubmit' = NoSubmit
  /\ elFrame' = NoFrame
  /\ pgFrame' = NoFrame
  /\ UNCHANGED <<twoPass, svgVars, gpuSupported, variant, mounted, src, inits, gpuContext,
                 isVisible, isHovered, mousePos, dimensions, error, isLoading,
                 canvasSize, surface, startTimeRef, animationFrameRef,
                 renderCleanup, rafPending, lastInitAt, pausedAt, elSrc,
                 elConnected, elCalls, elImg, elTextureSize, elCanvasSize,
                 elContext, elDevice, elSurface, elUniformBuffer, elBindGroup,
                 elPipeline, elStartTime, elLoops, pgScript, pgPc, pgError,
                 pgContext, pgImg, pgCanvasSize, pgDeviceRequested, pgSurface,
                 pgUniformBuffer, pgBindGroup, pgPipeline, pgStartTime,
                 pgRotation, pgRaf, pgListening>>

Next ==
  \/ \E s \in Sources, v \in Variants : Mount(s, v)
  \/ \E s \in Sources : SetSrc(s)
  \/ Unmount
  \/ \E g \in 1..MaxInits : LoadResolved(g)
  \/ \E g \in 1..MaxInits : LoadRejected(g)
  \/ \E g \in 1..MaxInits, found \in BOOLEAN : AdapterResolved(g, found)
  \/ \E g \in 1..MaxInits, hasContext \in BOOLEAN : DeviceResolved(g, hasContext)
  \/ \E v \in BOOLEAN : VisibilityChange(v)
  \/ \E dx, dy \in PointerOffsets, w, h \in RectExtents :
       handleMouseMove(dx, dy, w, h)
  \/ \E hov \in BOOLEAN : handleHover(hov)
  \/ \E c \in rafPending : AnimationFrame(c)
  \/ Tick

Spec == Init /\ [][Next]_vars

(***************************************************************************)
(* One WebGPURenderer with one src, under pointer events anywhere inside   *)
(* or outside a canvas of any extent.                                      *)
(***************************************************************************)
\* e.clientX - rect.left: left of, on and right of the canvas' left edge
WidePointerOffsets == {-1, 0, 3}

\* rect.width, rect.height: a collapsed and an extended bounding rectangle
WideRectExtents == {0, 2}

NextPointer ==
  \/ \E s \in Sources, v \in Variants : Mount(s, v)
  \/ \E g \in 1..MaxInits : LoadResolved(g)
  \/ \E g \in 1..MaxInits, found \in BOOLEAN : AdapterResolved(g, found)
  \/ \E g \in 1..MaxInits, hasContext \in BOOLEAN : DeviceResolved(g, hasContext)
  \/ \E v \in BOOLEAN : VisibilityChange(v)
  \/ \E dx, dy \in WidePointerOffsets, w, h \in WideRectExtents :
       handleMouseMove(dx, dy, w, h)
  \/ \E hov \in BOOLEAN : handleHover(hov)
  \/ \E c \in rafPending : AnimationFrame(c)
  \/ Tick

SpecPointer == Init /\ [][NextPointer]_vars


(***************************************************************************)
(* The <webgpu-image> custom element.                                      *)
(***************************************************************************)
\* number of invocations of initWebGPU on one element
MaxCalls == 2

\* the values the host gives the src attribute
AttrValues == Sources \cup {"", Absent}

\* One invocation of initWebGPU up to its first await.  pc: "nosrc" (returned
\* because getAttribute("src") is empty or null), "load" (await loadImage),
\* "adapter", "device" (the awaits of initDevice), "done" (render() was
\* called and returned), "threw" (render() was called and threw), "failed"
\* (the promise of initWebGPU rejected before render()).  overlaps is
\* history: the earlier calls that were suspended when this one began;
\* failure is history: why its initialization did not complete ("" if it
\* did or is under way): "image", "unsupported", "context", "adapter",
\* "TypeError".
NewCall(s, by) ==
  [ imgSrc |-> s, by |-> by, failure |-> "",
    pc |-> IF s \in {"", Absent} THEN "nosrc" ELSE "load",
    overlaps |-> {j \in 1..Len(elCalls) :
                    elCalls[j].pc \in {"load", "adapter", "device"}} ]

\* the Float32Array(12) updateUniformBuffer hands to writeBuffer at offset 0
elUniformData(time) ==
  << F(1), F(1), F(1), F(1), time, F(0), F(0), F(0), F(0), F(0), F(0), F(0) >>

\* The statements one render() of the element executes, in program order:
\* all of them when the frame is submitted, those before the TypeError
\* otherwise (the time is an argument of updateUniformBuffer)
elRenderCommands(kind) ==
  IF kind = "submitted"
  THEN << "time", "writeBuffer", "beginRenderPass", "setPipeline",
          "setBindGroup", "draw", "end", "submit", "requestAnimationFrame" >>
  ELSE IF kind = "wrote" THEN << "time", "writeBuffer" >>
  ELSE << "time" >>

\* One call of render() on the element with the given fields: a TypeError
\* before the uniform write when this.device or this.uniformBuffer is
\* undefined ("threw"), one after the write and before the submission when
\* this.context is not a context ("wrote"), else the submission and the
\* request for the next frame ("submitted").
elRender(dev, buf, ctx, bg, pipe, start) ==
  IF dev = 0 \/ buf.call = 0
  THEN [kind |-> "threw", commands |-> elRenderCommands("threw")]
  ELSE [ kind |-> IF ctx = "context" /\ pipe.call # 0 /\ bg.call # 0
                  THEN "submitted" ELSE "wrote",
         commands |-> elRenderCommands(
                        IF ctx = "context" /\ pipe.call # 0 /\ bg.call # 0
                        THEN "submitted" ELSE "wrote"),
         device |-> dev,
         uniformBuffer |-> buf,
         bindGroup |-> bg,
         pipeline |-> pipe,
         writeOffset |-> 0,
         writeBytes |-> BytesPerFloat *
                          Len(elUniformData(JsDiv(now - start, TimeDivisor))),
         uniform |-> elUniformData(JsDiv(now - start, TimeDivisor)),
         time |-> JsDiv(now - start, TimeDivisor),
         at |-> now ]

\* requestAnimationFrame(() => this.render()) at the end of render()
elRequested(frame) == IF frame.kind = "submitted" THEN 1 ELSE 0

\* Mutation of SrcChanged: the callback does not compare the values
SrcChanged_Always(name, oldValue, newValue) == TRUE

\* the condition of attributeChangedCallback
SrcChanged(name, oldValue, newValue) == name = "src" /\ oldValue # newValue

\* attributeChangedCallback("src", elSrc, s): the host sets, changes or
\* removes the attribute; initWebGPU is called when the value differs
attributeChangedCallback(s) ==
  /\ Len(elCalls) < MaxCalls
  /\ elSrc' = s
  /\ elCalls' = IF SrcChanged("src", elSrc, s)
                THEN Append(elCalls, NewCall(s, "attribute"))
                ELSE elCalls
  /\ elFrame' = NoFrame
  /\ UNCHANGED <<twoPass, svgVars, gpuSupported, now, reactVars, pgVars, elConnected, elImg,
                 elTextureSize, elCanvasSize, elContext, elDevice, elSurface,
                 elUniformBuffer, elBindGroup, elPipeline, elStartTime,
                 elLoops>>

\* connectedCallback: the element is inserted into a document; initWebGPU is
\* called when it has a src attribute
connectedCallback ==
  /\ ~elConnected
  /\ Len(elCalls) < MaxCalls
  /\ elConnected' = TRUE
  /\ elCalls' = IF elSrc # Absent THEN Append(elCalls, NewCall(elSrc, "connected"))
                ELSE elCalls
  /\ elFrame' = NoFrame
  /\ UNCHANGED <<twoPass, svgVars, gpuSupported, now, reactVars, pgVars, elSrc, elImg, elTextureSize,
                 elCanvasSize, elContext, elDevice, elSurface,
                 elUniformBuffer, elBindGroup, elPipeline, elStartTime,
                 elLoops>>

\* The element is removed from its document: the class defines no
\* disconnectedCallback
Disconnect ==
  /\ elConnected
  /\ elConnected' = FALSE
  /\ elFrame' = NoFrame
  /\ UNCHANGED <<twoPass, svgVars, gpuSupported, now, reactVars, pgVars, elSrc, elCalls, elImg,
                 elTextureSize, elCanvasSize, elContext, elDevice, elSurface,
                 elUniformBuffer, elBindGroup, elPipeline, elStartTime,
                 elLoops>>

\* The tail of initWebGPU for call k once initializeWebGPU has returned:
\* this.startTime = performance.now(); this.render()
elStartRendering(k, why, dev, buf, ctx, bg, pipe) ==
  LET f == elRender(dev, buf, ctx, bg, pipe, now)
  IN /\ elStartTime' = now
     /\ elFrame' = f
     /\ elLoops' = elLoops + elRequested(f)
     /\ elCalls' = [elCalls EXCEPT ![k].pc =
                      IF f.kind = "submitted" THEN "done" ELSE "threw",
                                   ![k].failure = why]

\* img.onload of call k: initWebGPU resumes after await loadImage, sets the
\* image and the canvas size and runs initializeWebGPU up to its await.
\* hasContext: canvas.getContext("webgpu") returns a context; every call
\* on the one canvas of the element returns the same.
elLoadResolved(k, hasContext) ==
  /\ k \in 1..Len(elCalls)
  /\ elCalls[k].pc = "load"
  /\ elContext = "context" => hasContext
  /\ elContext = "null" => ~hasContext
  /\ elImg' = elCalls[k].imgSrc
  /\ elTextureSize' = ImgSize(elCalls[k].imgSrc)
  /\ elCanvasSize' = ImgSize(elCalls[k].imgSrc)
  /\ elContext' = IF ~gpuSupported THEN elContext
                  ELSE IF hasContext THEN "context" ELSE "null"
  /\ IF gpuSupported /\ hasContext
     THEN /\ elCalls' = [elCalls EXCEPT ![k].pc = "adapter"]
          /\ elFrame' = NoFrame
          /\ UNCHANGED <<elStartTime, elLoops>>
     ELSE elStartRendering(k, IF gpuSupported THEN "context"
                                 ELSE "unsupported",
                           elDevice, elUniformBuffer, elContext',
                           elBindGroup, elPipeline)
  /\ UNCHANGED <<twoPass, svgVars, gpuSupported, now, reactVars, pgVars, elSrc, elConnected, elDevice,
                 elSurface, elUniformBuffer, elBindGroup, elPipeline>>

\* img.onerror of call k: loadImage rejects and so does initWebGPU
elLoadRejected(k) ==
  /\ k \in 1..Len(elCalls)
  /\ elCalls[k].pc = "load"
  /\ elCalls' = [elCalls EXCEPT ![k].pc = "failed", ![k].failure = "image"]
  /\ elFrame' = NoFrame
  /\ UNCHANGED <<twoPass, svgVars, gpuSupported, now, reactVars, pgVars, elSrc, elConnected, elImg,
                 elTextureSize, elCanvasSize, elContext, elDevice, elSurface,
                 elUniformBuffer, elBindGroup, elPipeline, elStartTime,
                 elLoops>>

\* navigator.gpu.requestAdapter() of call k resolves, with an adapter or null
elAdapterResolved(k, found) ==
  /\ k \in 1..Len(elCalls)
  /\ elCalls[k].pc = "adapter"
  /\ elCalls' = [elCalls EXCEPT ![k].pc = IF found THEN "device" ELSE "failed",
                                ![k].failure = IF found THEN "" ELSE "adapter"]
  /\ elFrame' = NoFrame
  /\ UNCHANGED <<twoPass, svgVars, gpuSupported, now, reactVars, pgVars, elSrc, elConnected, elImg,
                 elTextureSize, elCanvasSize, elContext, elDevice, elSurface,
                 elUniformBuffer, elBindGroup, elPipeline, elStartTime,
                 elLoops>>

\* adapter.requestDevice() of call k resolves: initializeWebGPU assigns
\* this.device, configures this.context, builds the texture from this.img,
\* the uniform buffer, the bind group and the pipeline, and initWebGPU
\* starts rendering.  this.context.configure throws when another call has
\* set this.context to null meanwhile.
elDeviceResolved(k) ==
  /\ k \in 1..Len(elCalls)
  /\ elCalls[k].pc = "device"
  /\ elDevice' = k
  /\ IF elContext # "context"
     THEN /\ elCalls' = [elCalls EXCEPT ![k].pc = "failed",
                                        ![k].failure = "TypeError"]
          /\ elFrame' = NoFrame
          /\ UNCHANGED <<elSurface, elUniformBuffer, elBindGroup, elPipeline,
                         elStartTime, elLoops>>
     ELSE LET buf == [call |-> k, size |-> elUniformBufferSize]
              made == createBindGroup(k, buf)
              bg == [call |-> k, img |-> elImg, texSize |-> ImgSize(elImg),
                     layout |-> made.bindGroup.layout,
                     buffer |-> made.bindGroup.buffer]
              pipe == createRenderPipeline(k, made.bindGroupLayout,
                                           getPreferredCanvasFormat)
          IN /\ elSurface' = configure(elSurface, k, getPreferredCanvasFormat)
             /\ elUniformBuffer' = buf
             /\ elBindGroup' = bg
             /\ elPipeline' = pipe
             /\ elStartRendering(k, "", k, buf, elContext, bg, pipe)
  /\ UNCHANGED <<twoPass, svgVars, gpuSupported, now, reactVars, pgVars, elSrc, elConnected, elImg,
                 elTextureSize, elCanvasSize, elContext>>

\* The browser runs one pending () => this.render()
elAnimationFrame ==
  /\ elLoops > 0
  /\ LET f == elRender(elDevice, elUniformBuffer, elContext, elBindGroup,
                       elPipeline, elStartTime)
     IN /\ elFrame' = f
        /\ elLoops' = (elLoops - 1) + elRequested(f)
  /\ UNCHANGED <<twoPass, svgVars, gpuSupported, now, reactVars, pgVars, elSrc, elConnected, elCalls,
                 elImg, elTextureSize, elCanvasSize, elContext, elDevice,
                 elSurface, elUniformBuffer, elBindGroup, elPipeline,
                 elStartTime>>

NextElement ==
  \/ \E s \in AttrValues : attributeChangedCallback(s)
  \/ connectedCallback
  \/ Disconnect
  \/ \E k \in 1..MaxCalls, hasContext \in BOOLEAN : elLoadResolved(k, hasContext)
  \/ \E k \in 1..MaxCalls : elLoadRejected(k)
  \/ \E k \in 1..MaxCalls, found \in BOOLEAN : elAdapterResolved(k, found)
  \/ \E k \in 1..MaxCalls : elDeviceResolved(k)
  \/ elAnimationFrame
  \/ Tick

SpecElement == Init /\ [][NextElement]_vars

(***************************************************************************)
(* The standalone pages: src/main.js (two revisions) and the cube page.    *)
(***************************************************************************)
\* number of cube.rotate calls of one page
MaxFrames == 2

\* the scripts a page can run
Scripts == {"static", "animated", "cube"}

\* window.devicePixelRatio
DevicePixelRatios == {1, 2}

\* Mutation of pgUniformBufferSize: each buffer is sized by the floats the
\* script writes to it (4; 5; 2 * 16) and not rounded up to the struct size
pgUniformBufferSize_Packed(script) ==
  IF script = "static" THEN 4 * 4
  ELSE IF script = "animated" THEN 4 * 5
  ELSE 16 * 4 * 2

\* the size each script creates its uniform buffer with
pgUniformBufferSize(script) ==
  IF script = "static" THEN 16
  ELSE IF script = "animated" THEN 48
  ELSE 16 * 4 * 2

\* byteLength of a gl-matrix mat4 (a Float32Array of 16)
Mat4Bytes == BytesPerFloat * 16

\* writeBuffer(uniformBuffer, offset, <bytes bytes>)
Write(offset, bytes) == [offset |-> offset, bytes |-> bytes]

\* Mutation of pgFrameWrites: updateUniformBuffer allocates a Float32Array
\* of 16, and Cube.rotate puts the normal matrix after two matrices
pgFrameWrites_Oversized(script) ==
  IF script = "static" THEN <<>>
  ELSE IF script = "animated" THEN <<Write(0, BytesPerFloat * 16)>>
  ELSE <<Write(0, Mat4Bytes), Write(128, Mat4Bytes)>>

\* The uniform writes one frame of each script queues: none in the static
\* script's render(), updateUniformBuffer's Float32Array(12) in the animated
\* one, the two matrices of Cube.rotate
pgFrameWrites(script) ==
  IF script = "static" THEN <<>>
  ELSE IF script = "animated" THEN <<Write(0, BytesPerFloat * 12)>>
  ELSE <<Write(0, Mat4Bytes), Write(64, Mat4Bytes)>>

\* the one-off write of the static script's main(): the tint colour
pgSetupWrites(script) ==
  IF script = "static" THEN <<Write(0, BytesPerFloat * 4)>> ELSE <<>>

\* resizeCanvas: the static script scales by devicePixelRatio
pgResizeCanvas(script, img, dpr) ==
  IF script = "static" THEN <<ImgSize(img)[1] * dpr, ImgSize(img)[2] * dpr>>
  ELSE ImgSize(img)

\* The statements of one frame of each script, in program order: render()
\* of the static script (no uniform write, no request), render() of the
\* animated one, frame() of the cube page (cube.rotate writes two matrices,
\* renderer.render, requestAnimationFrame)
pgRenderCommands(script) ==
  IF script = "static"
  THEN << "resizeCanvas", "beginRenderPass", "setPipeline", "setBindGroup",
          "setVertexBuffer", "draw", "end", "submit" >>
  ELSE IF script = "animated"
  THEN << "resizeCanvas", "time", "writeBuffer", "beginRenderPass",
          "setPipeline", "setBindGroup", "setVertexBuffer", "draw", "end",
          "submit", "requestAnimationFrame" >>
  ELSE << "writeBuffer", "writeBuffer", "beginRenderPass", "setPipeline",
          "setVertexBuffer", "setBindGroup", "draw", "end", "submit",
          "requestAnimationFrame" >>

\* One frame of a script: its uniform writes, then the pass with the
\* pipeline and the bind group, then the submission
pgRender(script, setup, buf, bg, pipe, surf) ==
  [ kind |-> "submitted",
    commands |-> pgRenderCommands(script),
    writes |-> setup \o pgFrameWrites(script),
    uniformBuffer |-> buf,
    bindGroup |-> bg,
    pipeline |-> pipe,
    surface |-> surf,
    at |-> now ]

\* main() rejects with kind
pgFail(kind) ==
  /\ pgPc' = "failed"
  /\ pgError' = kind

\* What initialization rejects with when requestAdapter resolves to null:
\* Error("No adapter found") in main.js; the TypeError of
\* this.adapter.requestDevice() in Renderer.initialize, which does not look
\* at the adapter
pgNoAdapter(script) == IF script = "cube" THEN "TypeError" ELSE "adapter"

\* The page loads script: its top level and main() up to the first await.
\* ctx is what canvas.getContext("webgpu") returns on this page's canvas:
\* null where navigator.gpu is absent.
PageLoad(script, ctx) ==
  /\ pgScript = ""
  /\ ctx = "context" => gpuSupported
  /\ pgScript' = script
  /\ pgContext' = ctx
  /\ IF script = "cube"
     THEN IF gpuSupported
          THEN pgPc' = "adapter" /\ pgError' = pgError
          ELSE pgFail("unsupported")
     ELSE pgPc' = "load" /\ pgError' = pgError
  /\ pgFrame' = NoFrame
  /\ UNCHANGED <<twoPass, svgVars, gpuSupported, now, reactVars, ceVars, pgImg, pgCanvasSize,
                 pgDeviceRequested, pgSurface, pgUniformBuffer, pgBindGroup,
                 pgPipeline, pgStartTime, pgRotation, pgRaf, pgListening>>

\* img.onload: main() resumes after await loadImage and calls initWebGPU
pgLoadResolved(s) ==
  /\ pgPc = "load"
  /\ pgImg' = s
  /\ IF gpuSupported
     THEN pgPc' = "adapter" /\ pgError' = pgError
     ELSE pgFail("unsupported")
  /\ pgFrame' = NoFrame
  /\ UNCHANGED <<twoPass, svgVars, gpuSupported, now, reactVars, ceVars, pgScript, pgContext,
                 pgCanvasSize, pgDeviceRequested, pgSurface, pgUniformBuffer,
                 pgBindGroup, pgPipeline, pgStartTime, pgRotation, pgRaf,
                 pgListening>>

\* img.onerror: loadImage of the animated script rejects (the static
\* script's loadImage sets no onerror and never settles)
pgLoadRejected ==
  /\ pgPc = "load"
  /\ pgScript = "animated"
  /\ pgFail("image")
  /\ pgFrame' = NoFrame
  /\ UNCHANGED <<twoPass, svgVars, gpuSupported, now, reactVars, ceVars, pgScript, pgContext,
                 pgImg, pgCanvasSize, pgDeviceRequested, pgSurface,
                 pgUniformBuffer, pgBindGroup, pgPipeline, pgStartTime,
                 pgRotation, pgRaf, pgListening>>

\* navigator.gpu.requestAdapter() resolves, with an adapter or null
pgAdapterResolved(found) ==
  /\ pgPc = "adapter"
  /\ IF found
     THEN /\ pgPc' = "device"
          /\ pgError' = pgError
          /\ pgDeviceRequested' = TRUE
     ELSE /\ pgFail(pgNoAdapter(pgScript))
          /\ pgDeviceRequested' = pgDeviceRequested
  /\ pgFrame' = NoFrame
  /\ UNCHANGED <<twoPass, svgVars, gpuSupported, now, reactVars, ceVars, pgScript, pgContext,
                 pgImg, pgCanvasSize, pgSurface, pgUniformBuffer, pgBindGroup,
                 pgPipeline, pgStartTime, pgRotation, pgRaf, pgListening>>

\* adapter.requestDevice() resolves: context.configure, then main() runs to
\* its end: the uniform buffer, the bind group and the pipeline over one
\* bind group layout, and the first frame (static) or the request for it
pgDeviceResolved(dpr) ==
  /\ pgPc = "device"
  /\ IF pgContext # "context"
     THEN /\ pgFail("TypeError")
          /\ pgFrame' = NoFrame
          /\ UNCHANGED <<pgCanvasSize, pgSurface, pgUniformBuffer, pgBindGroup,
                         pgPipeline, pgStartTime, pgRaf, pgListening>>
     ELSE LET surf == configure(pgSurface, 1, getPreferredCanvasFormat)
              buf == [call |-> 1, size |-> pgUniformBufferSize(pgScript)]
              made == createBindGroup(1, buf)
              pipe == createRenderPipeline(1, made.bindGroupLayout,
                                           getPreferredCanvasFormat)
          IN /\ pgPc' = "running"
             /\ pgError' = pgError
             /\ pgSurface' = surf
             /\ pgUniformBuffer' = buf
             /\ pgBindGroup' = made.bindGroup
             /\ pgPipeline' = pipe
             /\ pgStartTime' = IF pgScript = "animated" THEN now
                               ELSE pgStartTime
             /\ pgListening' = (pgScript # "cube")
             /\ IF pgScript = "static"
                THEN /\ pgCanvasSize' = pgResizeCanvas(pgScript, pgImg, dpr)
                     /\ pgFrame' = pgRender(pgScript, pgSetupWrites(pgScript),
                                            buf, made.bindGroup, pipe, surf)
                     /\ pgRaf' = pgRaf
                ELSE /\ pgCanvasSize' = pgCanvasSize
                     /\ pgFrame' = NoFrame
                     /\ pgRaf' = 1
  /\ UNCHANGED <<twoPass, svgVars, gpuSupported, now, reactVars, ceVars, pgScript, pgContext,
                 pgImg, pgDeviceRequested, pgRotation>>

\* The browser runs the pending frame callback: render of the animated
\* script, frame() of the cube page (cube.rotate, renderer.render)
pgAnimationFrame ==
  /\ pgRaf > 0
  /\ pgScript = "cube" => pgRotation < MaxFrames
  /\ pgRotation' = IF pgScript = "cube" THEN pgRotation + 1 ELSE pgRotation
  /\ pgCanvasSize' = IF pgScript = "cube" THEN pgCanvasSize
                     ELSE pgResizeCanvas(pgScript, pgImg, 1)
  /\ pgFrame' = pgRender(pgScript, <<>>, pgUniformBuffer, pgBindGroup,
                         pgPipeline, pgSurface)
  /\ pgRaf' = pgRaf
  /\ UNCHANGED <<twoPass, svgVars, gpuSupported, now, reactVars, ceVars, pgScript, pgPc,
                 pgError, pgContext, pgImg, pgDeviceRequested, pgSurface,
                 pgUniformBuffer, pgBindGroup, pgPipeline, pgStartTime,
                 pgListening>>

\* The window is resized: the static script renders again, the animated one
\* resizes the canvas
pgResize(dpr) ==
  /\ pgListening
  /\ pgCanvasSize' = pgResizeCanvas(pgScript, pgImg, dpr)
  /\ pgFrame' = IF pgScript = "static"
                THEN pgRender(pgScript, <<>>, pgUniformBuffer, pgBindGroup,
                              pgPipeline, pgSurface)
                ELSE NoFrame
  /\ UNCHANGED <<twoPass, svgVars, gpuSupported, now, reactVars, ceVars, pgScript, pgPc,
                 pgError, pgContext, pgImg, pgDeviceRequested, pgSurface,
                 pgUniformBuffer, pgBindGroup, pgPipeline, pgStartTime,
                 pgRotation, pgRaf, pgListening>>

NextPage ==
  \/ \E script \in Scripts, ctx \in {"context", "null"} : PageLoad(script, ctx)
  \/ \E s \in Sources : pgLoadResolved(s)
  \/ pgLoadRejected
  \/ \E found \in BOOLEAN : pgAdapterResolved(found)
  \/ \E dpr \in DevicePixelRatios : pgDeviceResolved(dpr)
  \/ pgAnimationFrame
  \/ \E dpr \in DevicePixelRatios : pgResize(dpr)
  \/ Tick

SpecPage == Init /\ [][NextPage]_vars

(***************************************************************************)
(* One surface of any kind: a WebGPURenderer, a <webgpu-image> element or  *)
(* a standalone page, whichever starts first.                              *)
(***************************************************************************)
(***************************************************************************)
(* The two-pass (mask + main) configuration.  No file of src/ holds it: it *)
(* is modelled from section 4.6 of the specification.                      *)
(***************************************************************************)
\* Mutation of TwoPassPasses: the main pass is recorded first
TwoPassPasses_MainFirst ==
  << [target |-> "canvas", samples |-> {"image", "mask"}],
     [target |-> "mask", samples |-> {}] >>

\* The passes one frame records into its command sequence, in recording
\* order: the offscreen pass that renders the procedural mask into the mask
\* texture, then the main pass that samples the image and the mask
TwoPassPasses ==
  << [target |-> "mask", samples |-> {}],
     [target |-> "canvas", samples |-> {"image", "mask"}] >>

\* The GPU executes the passes of one submission in recorded order.  A pass
\* of frame n that targets the mask texture leaves the mask of frame n in
\* it; a pass that samples the mask texture reads what it holds by then.
\* st.mask: what the mask texture holds; st.sampled: what was read of it.
RECURSIVE ExecutePasses(_, _, _)
ExecutePasses(passes, n, st) ==
  IF passes = <<>> THEN st
  ELSE LET pass == Head(passes)
       IN ExecutePasses(
            Tail(passes), n,
            [ mask |-> IF pass.target = "mask" THEN n ELSE st.mask,
              sampled |-> IF "mask" \in pass.samples
                          THEN Append(st.sampled, st.mask)
                          ELSE st.sampled ])

\* Ready -> Running: the surface starts its frame loop
TwoPassStart ==
  /\ twoPass.pc = "idle"
  /\ twoPass' = [twoPass EXCEPT !.pc = "running"]
  /\ UNCHANGED <<gpuSupported, now, reactVars, ceVars, pgVars, svgVars>>

\* One frame callback: both passes are encoded into one command sequence
\* and submitted together, and the next frame is requested
TwoPassFrame ==
  /\ twoPass.pc = "running"
  /\ twoPass.frames < MaxFrames
  /\ LET n == twoPass.frames + 1
         done == ExecutePasses(TwoPassPasses, n,
                               [mask |-> twoPass.mask, sampled |-> <<>>])
     IN twoPass' = [ pc |-> "running",
                     frames |-> n,
                     mask |-> done.mask,
                     frame |-> [ kind |-> "submitted",
                                 n |-> n,
                                 passes |-> TwoPassPasses,
                                 sampled |-> done.sampled ] ]
  /\ UNCHANGED <<gpuSupported, now, reactVars, ceVars, pgVars, svgVars>>

(***************************************************************************)
(* The SVG page: src/unnamed/part_000 (SVGParser, createCanvas, animate).  *)
(***************************************************************************)
\* the most children the svg root gets
MaxChildren == 3

\* attribute values of an SVGElementState: string | number
Number(k) == [number |-> k]

String(s) == [string |-> s]

\* value.toString()
toString(value) ==
  IF "number" \in DOMAIN value THEN ToString(value.number) ELSE value.string

\* the states a host hands to the parser besides those of animate(): two
\* for one id, one with the empty id
HostStates ==
  { [id |-> "mainCircle", type |-> "circle",
     attributes |-> [r |-> Number(50)]],
    [id |-> "mainCircle", type |-> "rect",
     attributes |-> [fill |-> String("red")]],
    [id |-> "", type |-> "circle", attributes |-> [r |-> Number(50)]] }

\* the ids a host hands to removeElement
HostIds == {"mainCircle", "mainSquare", ""}

\* svgElement.getElementById(id): the position among the children of the
\* first element whose id attribute is id, 0 for null.  An element whose id
\* attribute is empty has no ID, so the empty id finds nothing.
getElementById(children, id) ==
  IF id = "" \/ \A i \in DOMAIN children : children[i].attributes.id # id
  THEN 0
  ELSE CHOOSE i \in DOMAIN children :
         /\ children[i].attributes.id = id
         /\ \A j \in 1..(i - 1) : children[j].attributes.id # id

\* element.setAttribute(attr, value.toString()) for every entry of attributes
setAttributes(element, attributes) ==
  [element EXCEPT !.attributes =
     [a \in DOMAIN @ \cup DOMAIN attributes |->
        IF a \in DOMAIN attributes THEN toString(attributes[a]) ELSE @[a]]]

\* Map.set and Map.delete
MapSet(map, key, value) ==
  [k \in DOMAIN map \cup {key} |-> IF k = key THEN value ELSE map[k]]

MapDelete(map, key) == [k \in DOMAIN map \ {key} |-> map[k]]

\* SVGParser.updateElement on parser = [children, elementStates]
updateElement(parser, state) ==
  LET i == getElementById(parser.children, state.id)
  IN [ children |->
         IF i # 0
         THEN [parser.children EXCEPT ![i] = setAttributes(@, state.attributes)]
         ELSE parser.children,
       elementStates |-> MapSet(parser.elementStates, state.id, state) ]

\* SVGParser.createElement
createElement(parser, state) ==
  LET i == getElementById(parser.children, state.id)
      element == [type |-> state.type, attributes |-> [id |-> state.id]]
  IN updateElement(
       [parser EXCEPT !.children = IF i = 0 THEN Append(@, element) ELSE @],
       state)

\* SVGParser.removeElement
removeElement(parser, id) ==
  LET i == getElementById(parser.children, id)
  IN IF i = 0 THEN parser
     ELSE [ children |->
              SubSeq(parser.children, 1, i - 1)
                \o SubSeq(parser.children, i + 1, Len(parser.children)),
            elementStates |-> MapDelete(parser.elementStates, id) ]

\* the parser of the page
Parser == [children |-> svgChildren, elementStates |-> elementStates]

\* a JavaScript number is truthy unless it is 0 or NaN
Truthy(v) == ~v.nan /\ v.num # 0

\* a || b
JsOr(a, b) == IF Truthy(a) THEN a ELSE b

\* Number.prototype.toString of an integer or NaN
numberToString(v) == IF v.nan THEN "NaN" ELSE ToString(v.num)

\* Mutation of ZeroSized: the measured size is not checked
ZeroSized_Unchecked(width, height) == FALSE

\* width === 0 || height === 0
ZeroSized(width, height) == width = F(0) \/ height = F(0)

\* The size createCanvas gives the svg element: the arguments when both are
\* truthy, else each missing one measured from the container
CanvasSize(width, height) ==
  IF Truthy(width) /\ Truthy(height) THEN <<width, height>>
  ELSE <<JsOr(width, containerRect[1]), JsOr(height, containerRect[2])>>

\* createCanvas throws
CanvasThrows(width, height) ==
  \/ container = "missing"
  \/ /\ ~(Truthy(width) /\ Truthy(height))
     /\ ZeroSized(CanvasSize(width, height)[1], CanvasSize(width, height)[2])

\* the attributes of the svg element createCanvas creates
SvgElement(width, height) ==
  LET w == numberToString(CanvasSize(width, height)[1])
      h == numberToString(CanvasSize(width, height)[2])
  IN [width |-> w, height |-> h, viewBox |-> "0 0 " \o w \o " " \o h]

\* the arguments of createCanvas
CanvasArgs == {F(0), F(300), NaN}

\* the sizes the container measures
RectSizes == {F(0), F(200)}

\* The page loads: the script looks up the container
SvgLoad(found, rect) ==
  /\ svgPc = "idle"
  /\ svgPc' = "loaded"
  /\ container' = IF found THEN "present" ELSE "missing"
  /\ containerRect' = rect
  /\ svgLast' = [op |-> "none"]
  /\ UNCHANGED <<gpuSupported, now, reactVars, ceVars, pgVars, twoPass,
                 containerChildren, svgChildren, elementStates, svgTime>>

\* createCanvas(width, height), the one call at the top level of the
\* script: an exception ends the script; else the new svg element becomes
\* svgElement
createCanvas(width, height) ==
  /\ svgPc = "loaded"
  /\ svgLast' = [ op |-> "createCanvas", width |-> width, height |-> height,
                  threw |-> CanvasThrows(width, height),
                  before |-> Len(containerChildren) ]
  /\ IF CanvasThrows(width, height)
     THEN /\ svgPc' = "failed"
          /\ UNCHANGED <<containerChildren, svgChildren>>
     ELSE /\ svgPc' = "canvas"
          /\ containerChildren' =
               Append(containerChildren, SvgElement(width, height))
          /\ svgChildren' = <<>>
  /\ UNCHANGED <<gpuSupported, now, reactVars, ceVars, pgVars, twoPass,
                 container, containerRect, elementStates, svgTime>>

\* 150 + Math.sin(time) * 20 at frame t (time = 0.05 t), to the nearest
\* integer for the first frames
circleY(t) == 150 + t

\* The two states animate() draws at frame t; squareX - 10 is
\* 140 + Math.cos(time) * 50 and squareY - 10 is
\* circleY - 70 + Math.sin(time * 2) * 10, to the nearest integer
AnimateStates(t) ==
  << [ id |-> "mainCircle", type |-> "circle",
       attributes |-> [cx |-> Number(150), cy |-> Number(circleY(t)),
                       r |-> Number(100), fill |-> String("black")] ],
     [ id |-> "mainSquare", type |-> "rect",
       attributes |-> [x |-> Number(IF t <= 2 THEN 190 ELSE 189),
                       y |-> Number(80 + 2 * t),
                       width |-> Number(20), height |-> Number(20),
                       fill |-> String("blue")] ] >>

\* animate(): the parser is created on the first call; the svg root is
\* cleared, the circle and the square are created, the next frame is
\* requested
animate ==
  /\ svgPc \in {"canvas", "running"}
  /\ svgTime < MaxFrames
  /\ LET cleared == [children |-> <<>>, elementStates |-> elementStates]
         drawn == createElement(createElement(cleared, AnimateStates(svgTime)[1]),
                                AnimateStates(svgTime)[2])
     IN /\ svgChildren' = drawn.children
        /\ elementStates' = drawn.elementStates
  /\ svgTime' = svgTime + 1
  /\ svgPc' = "running"
  /\ svgLast' = [op |-> "animate"]
  /\ UNCHANGED <<gpuSupported, now, reactVars, ceVars, pgVars, twoPass,
                 container, containerRect, containerChildren>>

\* A host calls parser.createElement(state), parser.updateElement(state) or
\* parser.removeElement(id) between two frames
HostCall(op, state, id) ==
  /\ svgPc = "running"
  /\ LET done == IF op = "createElement" THEN createElement(Parser, state)
                 ELSE IF op = "updateElement" THEN updateElement(Parser, state)
                 ELSE removeElement(Parser, id)
     IN /\ Len(done.children) <= MaxChildren
        /\ svgChildren' = done.children
        /\ elementStates' = done.elementStates
  /\ svgLast' = [op |-> op]
  /\ UNCHANGED <<gpuSupported, now, reactVars, ceVars, pgVars, twoPass,
                 svgPc, container, containerRect, containerChildren, svgTime>>

NextSvg ==
  \/ \E found \in BOOLEAN, w, h \in RectSizes : SvgLoad(found, <<w, h>>)
  \/ \E width, height \in CanvasArgs : createCanvas(width, height)
  \/ animate
  \/ \E state \in HostStates : HostCall("createElement", state, state.id)
  \/ \E state \in HostStates : HostCall("updateElement", state, state.id)
  \/ \E id \in HostIds :
       HostCall("removeElement", [id |-> id, type |-> "", attributes |-> <<>>],
                id)

SpecSvg == Init /\ [][NextSvg]_vars

ReactStarted == mounted # "idle"

ElementStarted == elSrc # Absent \/ elConnected \/ elCalls # <<>>

PageStarted == pgScript # ""

TwoPassStarted == twoPass.pc # "idle"

NextSurface ==
  \/ ~ElementStarted /\ ~PageStarted /\ ~TwoPassStarted /\ Next
  \/ ~ReactStarted /\ ~PageStarted /\ ~TwoPassStarted /\ NextElement
  \/ ~ReactStarted /\ ~ElementStarted /\ ~TwoPassStarted /\ NextPage
  \/ ~ReactStarted /\ ~ElementStarted /\ ~PageStarted
       /\ (TwoPassStart \/ TwoPassFrame)

SpecSurface == Init /\ [][NextSurface]_vars

(***************************************************************************)
(* Properties of WebGPURenderer.                                           *)
(***************************************************************************)
Runs == 1..Len(inits)

\* the run of the [src] effect for the current src
Current == Len(inits)

\* run g was cleaned up before it installed anything
CancelledEarly(g) == inits[g].cancelledAt \in {"load", "adapter", "device"}

\* run g holds GPU state of the component
Holds(g) ==
  \/ gpuContext.init = g
  \/ surface.device = g
  \/ \E c \in rafPending : c.ctx.init = g
  \/ lastSubmit.n /\ lastSubmit.init = g

\* C1: a run of the [src] effect whose cleanup ran while its loadImage was
\* pending never requests an adapter or a device, never configures the
\* canvas context, creates no GPU resource, never calls setGpuContext and no
\* frame is requested or submitted with anything of it.
C1_StaleLoadInstallsNothing ==
  \A g \in Runs :
    inits[g].cancelledAt = "load" =>
      /\ inits[g].pc \in {"load", "stale", "failed"}
      /\ ~inits[g].deviceRequested
      /\ ~inits[g].configured
      /\ ~inits[g].installed
      /\ ~Holds(g)

\* C1 witness: the load of a cleaned-up run has resolved, and the run
\* returned, while the run for the new src is under way
C1_Witness ==
  \E g \in Runs :
    /\ inits[g].cancelledAt = "load"
    /\ inits[g].pc = "stale"
    /\ g < Current
    /\ mounted = "mounted"

\* C2 (as claimed): a run of the [src] effect whose cleanup ran while its
\* device negotiation was pending does not, once resumed, configure the
\* canvas context, create resources, reset startTimeRef or call
\* setGpuContext.
C2_Claim ==
  \A g \in Runs :
    inits[g].cancelledAt \in {"adapter", "device"} =>
      ~inits[g].configured /\ ~inits[g].installed /\ ~Holds(g)

\* both runs have run to their end without a failure
SettledAB ==
  /\ mounted = "mounted"
  /\ error = ""
  /\ Len(inits) = 2
  /\ CancelledEarly(1)
  /\ inits[1].pc \in {"stale", "ready"}
  /\ inits[2].pc = "ready"

\* C3 (as claimed): src A, then src B before A's frame loop starts: once both
\* initializations have settled, gpuContext holds what was built from B's
\* image and the canvas has B's dimensions; and no frame is submitted with a
\* bind group built by a run that was cleaned up before its loop started.
C3_Claim ==
  /\ SettledAB =>
       /\ gpuContext.init = 2
       /\ gpuContext.img = src
       /\ canvasSize = ImgSize(src)
  /\ lastSubmit.n => ~CancelledEarly(lastSubmit.init)

\* C5 (as claimed): a src change disposes the running scheduler: until the
\* run for the new src has installed its gpuContext, no frame is written or
\* submitted with the gpuContext of a run that was running when its src was
\* replaced.
C5_Claim ==
  (lastSubmit.n /\ ~inits[Current].installed) =>
    inits[lastSubmit.init].cancelledAt # "ready"

\* C6: at most one requestAnimationFrame callback is pending, and
\* animationFrameRef holds its handle.
C6_OneFrameHandle ==
  /\ Cardinality(rafPending) <= 1
  /\ \A c \in rafPending : c.id = animationFrameRef

\* C6 witness: a frame callback is pending after a src change, an
\* initialization of the new src and a pointer event
C6_Witness ==
  /\ Cardinality(rafPending) = 1
  /\ Len(inits) = 2
  /\ inits[2].pc = "ready"
  /\ isHovered
  /\ lastSubmit.n
  /\ lastSubmit.cause = "raf"

\* C8: in the gated variant, while isVisible is false no frame callback is
\* pending and the handle is cleared, and no frame is written or submitted.
C8_NothingWhileHidden ==
  variant = "gated" =>
    /\ ~isVisible => rafPending = {} /\ animationFrameRef = 0
    /\ lastSubmit.n => isVisible /\ lastSubmit.visible

\* C8 witness: paused after having been running: the surface's only
\* initialization completed, and visibility was lost at a later clock value
C8_Witness ==
  /\ variant = "gated"
  /\ mounted = "mounted"
  /\ ~isVisible
  /\ gpuContext.init # 0
  /\ Len(inits) = 1
  /\ pausedAt > lastInitAt

\* C9: startTimeRef changes only in the step that completes an
\* initialization, and the time uniform of every frame is the clock at the
\* submission minus the clock at the last completed initialization, over 1000.
C9_PhaseNotReset ==
  /\ [][startTimeRef' # startTimeRef =>
          \E g \in Runs : inits[g].pc = "device" /\ inits'[g].pc = "ready"]_vars
  /\ [](lastSubmit.n =>
          /\ lastSubmit.at = now
          /\ lastSubmit.uniform[10] =
               JsDiv(lastSubmit.at - lastSubmit.epoch, TimeDivisor))

\* C9 witness: a frame submitted when visibility is regained, after a pause
\* during which the clock advanced; its time uniform counts that interval
C9_Witness ==
  /\ lastSubmit.n
  /\ lastSubmit.cause = "resume"
  /\ lastSubmit.pausedAt >= lastSubmit.epoch
  /\ lastSubmit.at > lastSubmit.pausedAt
  /\ lastSubmit.uniform[10] = JsDiv(1, TimeDivisor)

\* C10 (as claimed): in the gated variant a failed initialization is
\* terminal for the surface: error is set, the run has installed nothing,
\* and no frame is submitted.
C10_Claim ==
  \A g \in Runs :
    (variant = "gated" /\ mounted = "mounted" /\ inits[g].pc = "failed") =>
      /\ error # ""
      /\ ~inits[g].installed
      /\ gpuContext.init # g
      /\ ~lastSubmit.n


\* the runs whose adapter.requestDevice() was called
DevicesRequested == {g \in Runs : inits[g].deviceRequested}

\* C14 (as claimed): over any sequence of src assignments on one component
\* at most one device is requested, and once the component is unmounted no
\* device acquired for it remains undestroyed.
C14_Claim ==
  /\ Cardinality(DevicesRequested) <= 1
  /\ mounted = "unmounted" =>
       \A g \in DevicesRequested :
         inits[g].pc # "device" => inits[g].deviceDestroyed

\* a number of the closed interval [0, 1]
InUnit(v) == ~v.nan /\ v.den > 0 /\ 0 <= v.num /\ v.num <= v.den

\* C18 (as claimed): for every pointer position and every bounding
\* rectangle, a collapsed one included, the position handleMouseMove stores
\* and the one a frame writes lie in [0,1] x [0,1] and are never NaN; a
\* pointer before the canvas' edge is stored as 0 and one beyond its extent
\* as 1.
C18_Claim ==
  /\ [](InUnit(mousePos[1]) /\ InUnit(mousePos[2]))
  /\ [](lastSubmit.n =>
          InUnit(lastSubmit.uniform[5]) /\ InUnit(lastSubmit.uniform[6]))
  /\ [][\A dx, dy \in WidePointerOffsets, w, h \in WideRectExtents :
          handleMouseMove(dx, dy, w, h) =>
            /\ dx < 0 => mousePos'[1] = F(0)
            /\ dx > w => mousePos'[1] = F(1)
            /\ dy < 0 => mousePos'[2] = F(0)
            /\ dy > h => mousePos'[2] = F(1)]_vars

(***************************************************************************)
(* Properties of the <webgpu-image> element.                               *)
(***************************************************************************)
Calls == 1..Len(elCalls)

\* C4 (as claimed): the src attribute is changed from A to B while the
\* initWebGPU call for A is suspended: once both calls have run to their end,
\* the texture that is bound and the canvas size are those of B's image.
C4_Claim ==
  \A j, k \in Calls :
    ( /\ j \in elCalls[k].overlaps
      /\ elCalls[k].by = "attribute"
      /\ elCalls[j].imgSrc # elCalls[k].imgSrc
      /\ elCalls[k].imgSrc = elSrc
      /\ \A c \in Calls : elCalls[c].pc = "done" ) =>
        /\ elBindGroup.img = elSrc
        /\ elBindGroup.texSize = ImgSize(elSrc)
        /\ elCanvasSize = ImgSize(elSrc)

\* C7 (as claimed): at most one requestAnimationFrame callback for render()
\* is pending at any time.
C7_Claim == elLoops <= 1

\* C11 (as claimed): an initWebGPU call of the element whose initialization
\* failed (no navigator.gpu, a null context, no adapter, an image that does
\* not load) never invokes render(), and when every call has failed no
\* frame callback is pending.
C11_Claim ==
  /\ \A k \in Calls :
       elCalls[k].failure # "" => elCalls[k].pc \notin {"threw", "done"}
  /\ (\A k \in Calls : elCalls[k].failure # "") => elLoops = 0

UniformBuffers ==
  (IF gpuContext.init # 0 THEN {gpuContext.uniformBuffer} ELSE {})
    \cup {b \in {elUniformBuffer, pgUniformBuffer} : b.call # 0}
    \cup {c.ctx.uniformBuffer : c \in rafPending}

C17_FullRecordInOrder ==
  /\ lastSubmit.n =>
       LET d == lastSubmit.uniform
       IN /\ lastSubmit.writeOffset = 0
          /\ Len(d) >= StructFloats(Uniforms)
          /\ Field(d, Uniforms, "tintColor") = <<F(1), F(1), F(1), F(1)>>
          /\ Field(d, Uniforms, "mousePos") = lastSubmit.mousePos
          /\ Field(d, Uniforms, "resolution") =
               <<F(lastSubmit.resolution[1]), F(lastSubmit.resolution[2])>>
          /\ Field(d, Uniforms, "isHovered") =
               <<F(IF lastSubmit.isHovered THEN 1 ELSE 0)>>
          /\ Field(d, Uniforms, "time") =
               <<JsDiv(lastSubmit.at - lastSubmit.epoch, TimeDivisor)>>
          /\ \A n \in PaddingOf(d, Uniforms) : d[n] = F(0)
  /\ elFrame.kind \in {"wrote", "submitted"} =>
       LET d == elFrame.uniform
       IN /\ elFrame.writeOffset = 0
          /\ Len(d) >= StructFloats(elUniforms)
          /\ Field(d, elUniforms, "tintColor") = <<F(1), F(1), F(1), F(1)>>
          /\ Field(d, elUniforms, "time") = <<elFrame.time>>
          /\ Field(d, elUniforms, "padding") = <<F(0), F(0), F(0)>>
          /\ \A n \in PaddingOf(d, elUniforms) : d[n] = F(0)

\* C17 witness: a frame of WebGPURenderer written while the pointer hovers
\* at the far corner of a sized canvas, one tick after the initialization
C17_Witness ==
  /\ lastSubmit.n
  /\ lastSubmit.isHovered
  /\ lastSubmit.mousePos = <<F(1), F(1)>>
  /\ lastSubmit.resolution[1] > 0
  /\ lastSubmit.uniform[9] = F(1)
  /\ lastSubmit.uniform[10] = JsDiv(1, TimeDivisor)

\* C19: in every submitted pass of every variant the bind group set on the
\* pass was created from the bind group layout object that the pipeline's
\* layout was built over, also while initializations overlap.
C19_OneLayoutTwoConsumers ==
  /\ lastSubmit.n => lastSubmit.bindGroup.layout = lastSubmit.pipeline.layout
  /\ elFrame.kind = "submitted" =>
       elFrame.bindGroup.layout = elFrame.pipeline.layout
  /\ pgFrame.kind = "submitted" =>
       pgFrame.bindGroup.layout = pgFrame.pipeline.layout

\* C19 witness: a frame of the element submitted after two overlapping
\* initWebGPU calls have both created a layout, a bind group and a pipeline
C19_Witness ==
  /\ elFrame.kind = "submitted"
  /\ Len(elCalls) = 2
  /\ elCalls[2].overlaps = {1}
  /\ elCalls[1].pc = "done"
  /\ elCalls[2].pc = "done"
  /\ elFrame.pipeline.layout >= 1

\* C20: in every submitted frame the pipeline was built for the format the
\* surface is configured with at that moment.
C20_PipelineFormatIsSurfaceFormat ==
  /\ lastSubmit.n =>
       /\ surface.device # 0
       /\ lastSubmit.pipeline.format = surface.format
  /\ elFrame.kind = "submitted" =>
       /\ elSurface.device # 0
       /\ elFrame.pipeline.format = elSurface.format
  /\ pgFrame.kind = "submitted" =>
       /\ pgFrame.surface.device # 0
       /\ pgFrame.pipeline.format = pgFrame.surface.format
       /\ pgFrame.surface = pgSurface

\* C20 witness: a frame of WebGPURenderer submitted by the second
\* initialization of its canvas
C20_Witness ==
  /\ lastSubmit.n
  /\ lastSubmit.init = 2
  /\ inits[1].configured
  /\ surface.format = lastSubmit.pipeline.format
  /\ surface.format # ""

\* C16: every uniform-buffer write of every variant, per frame or one-off,
\* ends within the buffer it writes to: its offset plus the byte length of
\* its data is at most the size the buffer was created with.
C16_WritesInBounds ==
  /\ lastSubmit.n =>
       lastSubmit.writeOffset + lastSubmit.writeBytes
         <= lastSubmit.uniformBuffer.size
  /\ elFrame.kind \in {"wrote", "submitted"} =>
       elFrame.writeOffset + elFrame.writeBytes <= elFrame.uniformBuffer.size
  /\ pgFrame.kind = "submitted" =>
       \A i \in DOMAIN pgFrame.writes :
         pgFrame.writes[i].offset + pgFrame.writes[i].bytes
           <= pgFrame.uniformBuffer.size

\* C16 witness: a frame of the cube page: two writes, the second one ending
\* at the last byte of the buffer
C16_Witness ==
  /\ pgScript = "cube"
  /\ pgFrame.kind = "submitted"
  /\ Len(pgFrame.writes) = 2
  /\ pgFrame.writes[2].offset > 0
  /\ pgFrame.writes[2].offset + pgFrame.writes[2].bytes
       = pgFrame.uniformBuffer.size

(***************************************************************************)
(* Properties of the standalone pages.                                     *)
(***************************************************************************)
\* the initializer of the page was handed a null adapter: it failed without
\* having called requestDevice, and not on the image or on navigator.gpu
pgAdapterWasNull ==
  pgPc = "failed" /\ gpuSupported /\ ~pgDeviceRequested /\ pgError # "image"

\* C12 (as claimed): the graphics initializer fails with the unsupported-
\* platform error when navigator.gpu is absent and with the no-adapter error
\* when requestAdapter yields no adapter, in both cases before it requests a
\* device or configures the surface.
C12_Claim ==
  /\ (pgPc = "failed" /\ ~gpuSupported /\ pgError # "image") =>
       /\ pgError = "unsupported"
       /\ ~pgDeviceRequested
       /\ pgSurface = NoSurface
  /\ pgAdapterWasNull =>
       /\ pgError = "adapter"
       /\ pgSurface = NoSurface

(***************************************************************************)
(* Properties of resource construction.                                    *)
(***************************************************************************)
\* C21 (as claimed): the source texture that an initialization which
\* reached Ready has installed has the pixel width and height of the image
\* decoded for that initialization's own source.
C21_Claim ==
  /\ \A g \in Runs :
       (inits[g].pc = "ready" /\ gpuContext.init = g) =>
         gpuContext.texSize = ImgSize(inits[g].src)
  /\ \A k \in Calls :
       (elCalls[k].pc = "done" /\ elBindGroup.call = k) =>
         elBindGroup.texSize = ImgSize(elCalls[k].imgSrc)

(***************************************************************************)
(* Properties of the frame loop.                                           *)
(***************************************************************************)
\* the steps of a frame that C22 orders
FrameSteps ==
  {"time", "writeBuffer", "beginRenderPass", "draw", "submit",
   "requestAnimationFrame"}

\* the statements of a frame that are among FrameSteps, in program order
StepsOf(commands) == SelectSeq(commands, LAMBDA c : c \in FrameSteps)

\* C22: every frame that the render loop of the React component, of the
\* element or of the animated page submits computes the elapsed time, queues
\* the uniform write, records one pass with one draw, submits, and requests
\* the next frame, each once and in this order; the uniform write is never
\* queued after the submission of its frame.
C22_FrameStepsInOrder ==
  LET order == << "time", "writeBuffer", "beginRenderPass", "draw", "submit",
                  "requestAnimationFrame" >>
  IN /\ lastSubmit.n => StepsOf(lastSubmit.commands) = order
     /\ elFrame.kind = "submitted" => StepsOf(elFrame.commands) = order
     /\ (pgFrame.kind = "submitted" /\ pgScript = "animated") =>
          StepsOf(pgFrame.commands) = order

\* a frame callback of the React component has submitted a frame
C22_Witness == lastSubmit.n /\ lastSubmit.cause = "raf"

\* the element was inserted into a document and has been removed from it
elRemoved == ~elConnected /\ \E k \in Calls : elCalls[k].by = "connected"

\* C23 (as claimed): after the component is detached (React unmount, or
\* removal of the <webgpu-image> element from its document) no frame
\* callback is scheduled and no uniform write or submission occurs.
C23_Claim ==
  /\ mounted = "unmounted" => (rafPending = {} /\ ~lastSubmit.n)
  /\ elRemoved => (elLoops = 0 /\ elFrame.kind \notin {"wrote", "submitted"})

(***************************************************************************)
(* Properties of the two-pass configuration.                               *)
(***************************************************************************)
\* C24: in every frame of the two-pass configuration each pass that samples
\* the mask texture is recorded, in the one command sequence of the frame,
\* after a pass that renders the mask, so that what the main pass reads is
\* the mask of this very frame and never an older or an unrendered one.
C24_MaskBeforeMain ==
  twoPass.frame.kind = "submitted" =>
    LET passes == twoPass.frame.passes
        sampled == twoPass.frame.sampled
    IN /\ \A i \in DOMAIN passes :
            "mask" \in passes[i].samples =>
              \E j \in 1..(i - 1) : passes[j].target = "mask"
       /\ sampled # <<>>
       /\ \A i \in DOMAIN sampled : sampled[i] = twoPass.frame.n

\* a second frame was submitted: the mask texture held the mask of the
\* first frame when the second began
C24_Witness == twoPass.frame.kind = "submitted" /\ twoPass.frame.n = 2

(***************************************************************************)
(* Properties of the order of initialization.                              *)
(***************************************************************************)
\* C25: an initialization constructs its texture, bind group and pipeline
\* only once both its image decode and its device negotiation are over (not
\* while it is suspended in loadImage, requestAdapter or requestDevice), and
\* a frame is rendered or scheduled only with a pipeline that exists.
C25_ConstructAfterDecodeAndDevice ==
  /\ \A g \in Runs :
       /\ inits[g].pc \in {"load", "adapter", "device"} =>
            (~inits[g].installed /\ ~inits[g].configured
               /\ gpuContext.init # g)
       /\ inits[g].installed =>
            (inits[g].pc = "ready" /\ inits[g].deviceRequested)
  /\ lastSubmit.n =>
       /\ lastSubmit.pipeline.call = lastSubmit.init
       /\ inits[lastSubmit.init].installed
  /\ \A c \in rafPending :
       c.ctx.pipeline.call = c.ctx.init /\ inits[c.ctx.init].installed
  /\ \A k \in Calls :
       elCalls[k].pc \in {"load", "adapter", "device"} =>
         (elBindGroup.call # k /\ elPipeline.call # k)
  /\ (elLoops > 0 \/ elFrame.kind = "submitted") => elPipeline.call # 0
  /\ (pgUniformBuffer.call # 0 \/ pgBindGroup.layout # 0
        \/ pgPipeline.call # 0) =>
       /\ pgPc = "running"
       /\ pgDeviceRequested
       /\ pgScript # "cube" => pgImg # ""
  /\ (pgRaf > 0 \/ pgFrame.kind = "submitted") => pgPipeline.call # 0

\* a run of the [src] effect is suspended in requestDevice while the
\* resources of an earlier run are installed and rendering
C25_Witness ==
  /\ \E g \in Runs : inits[g].pc = "device"
  /\ gpuContext.init # 0
  /\ rafPending # {}

(***************************************************************************)
(* Properties of the bind layout and of the pass.                          *)
(***************************************************************************)
\* variant v has created its bind group layout and bind group
BindGroupCreated(v) ==
  IF v = "react" THEN gpuContext.init # 0
  ELSE IF v = "element" THEN elBindGroup.call # 0
  ELSE pgScript = v /\ pgBindGroup.layout # 0

\* C26: in every image-rendering variant that has built its bind group, the
\* declared layout has the slots the shader declares (sampler, sampled
\* texture, uniform buffer, in this order) with the same kind in each, the
\* bind group binds a resource of that kind in each slot, and each slot is
\* visible to every shader stage that reads it.
C26_LayoutMatchesShaderAndGroup ==
  \A v \in ImageVariants :
    BindGroupCreated(v) =>
      LET layout == BindGroupLayoutEntries(v)
          shader == ShaderBindings(v)
          group == BindGroupEntries(v)
      IN /\ DOMAIN layout = DOMAIN shader
         /\ DOMAIN layout = DOMAIN group
         /\ [i \in DOMAIN shader |-> shader[i].kind]
              = << "sampler", "texture", "buffer" >>
         /\ \A i \in DOMAIN layout :
              /\ layout[i].kind = shader[i].kind
              /\ layout[i].kind = group[i]
              /\ shader[i].readBy \subseteq layout[i].visibility

\* the animated page has built its bind group
C26_Witness == BindGroupCreated("animated") /\ pgRaf > 0

\* the image-rendering variants that have submitted a frame in this step,
\* each with the statements of that frame
SubmittedFrames ==
  (IF lastSubmit.n
   THEN {[v |-> "react", commands |-> lastSubmit.commands]} ELSE {})
  \cup (IF elFrame.kind = "submitted"
        THEN {[v |-> "element", commands |-> elFrame.commands]} ELSE {})
  \cup (IF pgFrame.kind = "submitted" /\ pgScript \in ImageVariants
        THEN {[v |-> pgScript, commands |-> pgFrame.commands]} ELSE {})

\* the number of times command c occurs in commands
Count(commands, c) == Len(SelectSeq(commands, LAMBDA x : x = c))

\* C27: every pass an image-rendering variant submits issues exactly one
\* draw, of 4 vertices, with a triangle-strip pipeline; it sets a vertex
\* buffer if and only if its pipeline declares a vertex buffer layout, and
\* that layout has a 16-byte stride with the position at offset 0 and the
\* texture coordinate at offset 8.
C27_OneStripDrawOfFour ==
  \A f \in SubmittedFrames :
    /\ Count(f.commands, "beginRenderPass") = 1
    /\ Count(f.commands, "draw") = 1
    /\ Draw(f.v).vertexCount = 4
    /\ Topology(f.v) = "triangle-strip"
    /\ (Count(f.commands, "setVertexBuffer") > 0) <=>
         (VertexBuffers(f.v) # << >>)
    /\ Count(f.commands, "setVertexBuffer") <= 1
    /\ \A i \in DOMAIN VertexBuffers(f.v) :
         LET b == VertexBuffers(f.v)[i]
         IN /\ b.arrayStride = 16
            /\ Len(b.attributes) = 2
            /\ b.attributes[1].shaderLocation = 0
            /\ b.attributes[1].offset = 0
            /\ b.attributes[2].shaderLocation = 1
            /\ b.attributes[2].offset = 8

\* the static page has drawn its quad from the vertex buffer
C27_Witness ==
  /\ pgScript = "static"
  /\ pgFrame.kind = "submitted"
  /\ Count(pgFrame.commands, "setVertexBuffer") = 1

(***************************************************************************)
(* Properties of the loading placeholder.                                  *)
(***************************************************************************)
\* C28 (as claimed): while the component is mounted and the initialization
\* for its current src has not yet installed its resources (it is suspended
\* in loadImage, requestAdapter or requestDevice), the wrapper renders the
\* loading placeholder.
C28_Claim ==
  (mounted = "mounted" /\ inits[Current].pc \in {"load", "adapter", "device"})
    => isLoading

(***************************************************************************)
(* Properties of the element's fields.                                     *)
(***************************************************************************)
\* C29: the device, uniform buffer, bind group and pipeline that a frame of
\* the element uses were all created by one initializeWebGPU run, and so
\* were the buffer the bind group binds and the layout the pipeline was
\* built over; between frames the four fields never hold a mixture of two
\* runs.
C29_ResourcesOfOneRun ==
  /\ elFrame.kind \in {"wrote", "submitted"} =>
       /\ elFrame.uniformBuffer.call = elFrame.device
       /\ elFrame.bindGroup.call = elFrame.device
       /\ elFrame.bindGroup.buffer = elFrame.uniformBuffer
       /\ elFrame.pipeline.call = elFrame.device
       /\ elFrame.pipeline.layout = elFrame.bindGroup.layout
  /\ elUniformBuffer.call = elDevice
  /\ elBindGroup.call = elDevice
  /\ elPipeline.call = elDevice

\* two overlapping initWebGPU calls have both run initializeWebGPU to its
\* end and a frame is submitted
C29_Witness ==
  /\ elFrame.kind = "submitted"
  /\ \E j, k \in Calls :
       /\ j \in elCalls[k].overlaps
       /\ elCalls[j].pc = "done"
       /\ elCalls[k].pc = "done"

\* C30: in the element an initWebGPU call begins only in a step that
\* connects the element while it has a src attribute, or in a step that
\* changes the value of the src attribute; a call loads an image only for a
\* non-empty src, and a call without one never loads, requests a device or
\* renders.  Without any loading call there is no image, no device and no
\* frame loop.
C30_StartedOnlyBySrc ==
  /\ [][ \A k \in 1..Len(elCalls') :
           k > Len(elCalls) =>
             /\ elCalls'[k].by = "attribute" => elSrc' # elSrc
             /\ elCalls'[k].by = "connected" =>
                  (~elConnected /\ elConnected' /\ elSrc # Absent)
             /\ elCalls'[k].imgSrc = elSrc'
             /\ elCalls'[k].pc = "load" <=> elSrc' \in Sources ]_vars
  /\ [](\A k \in Calls :
          elCalls[k].imgSrc \notin Sources => elCalls[k].pc = "nosrc")
  /\ []((\A k \in Calls : elCalls[k].pc = "nosrc") =>
          (elImg = "" /\ elDevice = 0 /\ elLoops = 0
             /\ elFrame.kind = "none"))

\* the element is connected with an empty src attribute: initWebGPU was
\* called and returned without loading anything
C30_Witness ==
  /\ elConnected
  /\ elSrc = ""
  /\ \E k \in Calls : elCalls[k].by = "connected"
  /\ \A k \in Calls : elCalls[k].pc = "nosrc"
  /\ elLoops = 0

(***************************************************************************)
(* Properties of the SVG page.                                             *)
(***************************************************************************)
\* the ids of the elements under the svg root
ChildIds(children) == {children[i].attributes.id : i \in DOMAIN children}

\* C31 (as claimed): createElement is idempotent per id: the svg root holds
\* at most one element for each id, and from the parser's present state
\* two calls of createElement with one state leave the children and
\* elementStates that one call leaves.
C31_Claim ==
  svgPc = "running" =>
    /\ \A i, j \in DOMAIN svgChildren :
         svgChildren[i].attributes.id = svgChildren[j].attributes.id => i = j
    /\ \A state \in HostStates
                    \cup {AnimateStates(0)[1], AnimateStates(0)[2]} :
         createElement(createElement(Parser, state), state)
           = createElement(Parser, state)


\* C32 (as claimed): while the page runs, the ids in elementStates are the
\* ids of the elements under the svg root, and after removeElement(id)
\* elementStates has no entry for id.
C32_Claim ==
  svgPc = "running" =>
    /\ DOMAIN elementStates = ChildIds(svgChildren)
    /\ \A id \in HostIds : id \notin DOMAIN removeElement(Parser, id).elementStates


\* C33: createCanvas throws and appends no svg element when the container
\* is missing or when the width or height, after a missing one is replaced
\* by the container's measured size, is zero; when it returns normally
\* exactly one svg element has been appended to the container and its
\* width and height are not zero.
C33_ThrowsOrAppendsOneSvg ==
  svgLast.op = "createCanvas" =>
    LET width == JsOr(svgLast.width, containerRect[1])
        height == JsOr(svgLast.height, containerRect[2])
        appended == Len(containerChildren) - svgLast.before
    IN /\ (container = "missing" \/ width = F(0) \/ height = F(0)) =>
            svgLast.threw /\ appended = 0
       /\ ~svgLast.threw =>
            /\ appended = 1
            /\ containerChildren[Len(containerChildren)].width \notin {"0", "NaN"}
            /\ containerChildren[Len(containerChildren)].height \notin {"0", "NaN"}

\* createCanvas was called with a missing height on a container that is
\* present and measures zero height: it threw and appended nothing
C33_Witness ==
  /\ svgLast.op = "createCanvas"
  /\ container = "present"
  /\ Truthy(svgLast.width)
  /\ ~Truthy(svgLast.height)
  /\ containerRect[2] = F(0)
  /\ svgLast.threw
  /\ containerChildren = <<>>

====
